---- MODULE Spec2Model ----
(***************************************************************************)
(* canon: container lifecycle orchestration and the interactive session    *)
(* bridge (shell.go: shell, startContainer, getPersistentContainer,        *)
(* checkContainerImageVersion, getWorkingDir, stop; container.go:          *)
(* stopContainer).                                                         *)
(*                                                                         *)
(* Each element of Procs is one canon process running shell(); the         *)
(* container engine is the shared state they act on through blocking API   *)
(* calls, one call per step.                                               *)
(***************************************************************************)
EXTENDS Integers, Sequences, FiniteSets, TLC

\* ---------------------------------------------------------------- bounds
Procs == {1, 2}

MaxContainers == 2

MaxLines == 1

NumSuffix == 2

MaxBytes == 1
MaxWinch == 1
MaxLockFiles == 2

Ctrs == 1..MaxContainers

\* ------------------------------------------------------------- profiles
\* Profile (config.go): the unexported field name and the exported fields
\* that take part in the claims.
Profiles ==
  { [name |-> "a", arch |-> "amd64", persistent |-> TRUE,  user |-> "u1"],
    [name |-> "a", arch |-> "amd64", persistent |-> TRUE,  user |-> "u2"],
    [name |-> "a", arch |-> "amd64", persistent |-> FALSE, user |-> "u1"] }

NoProfile == [name |-> "", arch |-> "", persistent |-> FALSE, user |-> ""]

BoolText(b) == IF b THEN "true" ELSE "false"

\* yaml.Marshal(profile): one "key: value" entry per exported field; the
\* unexported name is not serialised.
ProfileYaml(p) ==
  << <<"arch", p.arch>>, <<"persistent", BoolText(p.persistent)>>, <<"user", p.user>> >>

\* the com.viam.canon.profile label: profile.name + "/" + profile.Arch
ProfileLabel(p) == <<p.name, "/", p.arch>>

\* the com.viam.canon.type label
TypeLabel(p) == IF p.persistent THEN "persistent" ELSE "one-shot"

\* hostCfg.AutoRemove
AutoRemoveAlways(p) == TRUE

AutoRemove(p) == ~p.persistent

\* name := fmt.Sprintf("canon-%s-%x", profile.name, rando.Uint32())
ContainerName(p, suffix) == <<"canon", p.name, suffix>>

\* --------------------------------------------------------------- strings
HasPrefix(s, pre) == Len(pre) <= Len(s) /\ SubSeq(s, 1, Len(pre)) = pre

TrimPrefix(s, pre) == IF HasPrefix(s, pre) THEN SubSeq(s, Len(pre) + 1, Len(s)) ELSE s

Contains(s, sub) ==
  \E i \in 1..(Len(s) - Len(sub) + 1) : SubSeq(s, i, i + Len(sub) - 1) = sub

\* the marker text "CANON_READY", two symbols long in the model
CANON_READY == <<"C", "R">>

\* the line echoed by canon_setup.sh once setup is complete
ReadyLine == CANON_READY

\* other output of the entrypoint; the second one carries the marker inside a
\* longer line (a shell trace of the echo command)
NoiseLines == { <<"x">>, <<"+", "C", "R">> }

HasMarkerExact(line) == line = CANON_READY

HasMarker(line) == Contains(line, CANON_READY)

\* ----------------------------------------------------------------- paths
canonMountPoint == <<"/", "h">>

ProfilePath == <<"/", "p">>

Cwds == { <<"/", "p", "/", "s">>, <<"/", "q">> }

\* profile paths and host directories for getWorkingDir taken alone
Roots == { <<"/">>, <<"/", "p">>, <<"/", "p", "/", "s">> }

HostDirs ==
  { <<"/">>, <<"/", "p">>, <<"/", "p", "/", "s">>, <<"/", "p", "2">>,
    <<"/", "p", "/", "s", "/", "t">>, <<"/", "q">> }

\* filepath.Join(canonMountPoint, cwd) for a cwd that is empty or starts
\* with a separator or a name
Join(a, b) ==
  IF b = <<>> THEN a
  ELSE IF Head(b) = "/" THEN a \o b
  ELSE a \o <<"/">> \o b

\* the profile names a configuration may define
MaxProfiles == 3

ProfName == <<"a", "b", "c", "d">>

ProfNames == {ProfName[i] : i \in 1..MaxProfiles}

\* the path settings a profile may carry: none, or an absolute path, written
\* with or without a trailing separator
ConfigPaths ==
  { <<>>, <<"/">>, <<"/", "p">>, <<"/", "p", "/">>, <<"/", "p", "/", "s">> }

\* times are whole numbers up to MaxTime, update intervals up to MaxInterval
MaxTime == 3

MaxInterval == 2

NoRecord == -1

Archs == {"amd64", "arm64"}

\* the images of a dual-arch profile, keyed as the cache keys them
ImageDefs == {[Image |-> "img", Platform |-> <<"linux/", a>>] : a \in Archs}

\* checkContainerImageVersion: imageInfo.ID == containerImageID means no update
NeedsUpdate(containerImageID, imageID) == containerImageID # imageID

ImageIDs == {"img1", "img2"}

\* checkContainerImageVersion (shell.go 506-523): ContainerInspect, then
\* ImageInspectWithRaw of the configured reference, then the comparison
checkContainerImageVersionFlagsErrors(ctrOk, imgOk, containerImageID, imageID) ==
  IF ~ctrOk THEN [needsUpdate |-> TRUE, err |-> "inspect"]
  ELSE IF ~imgOk THEN [needsUpdate |-> TRUE, err |-> "imageInspect"]
  ELSE [needsUpdate |-> NeedsUpdate(containerImageID, imageID), err |-> "nil"]

checkContainerImageVersion(ctrOk, imgOk, containerImageID, imageID) ==
  IF ~ctrOk THEN [needsUpdate |-> FALSE, err |-> "inspect"]
  ELSE IF ~imgOk THEN [needsUpdate |-> FALSE, err |-> "imageInspect"]
  ELSE [needsUpdate |-> NeedsUpdate(containerImageID, imageID), err |-> "nil"]

\* what shell() does with needsUpdate (shell.go 57-62): it prints the warning
\* and goes on
DriftFatalWhenOutdated(flag) == flag

DriftFatal(flag) == FALSE

\* context.Background(): ctx.Done() never fires
CtxDone == FALSE

\* ----------------------------------------------------------------- state
VARIABLES
  ctr,        \* engine: container id -> container (labels, state, entrypoint phase)
  pc,         \* position of each canon process in shell()
  prof,       \* activeProfile of the process
  root,       \* activeProfile.Path, the host directory mounted in the container
  cwd,        \* the host current directory of the process (os.Getwd)
  stopArgs,   \* stop(): its arguments all and terminate
  todo,       \* stop(): the listed containers the loop has not reached yet
  errs,       \* stop(): the per-container errors joined into err so far
  mainSt,     \* main(): the command dispatched, what checkErr printed, and the
              \* exit status of the process (-1 while it runs)
  resizes,    \* shell(): the resizeTty calls made so far, each <<origin, error>>
  lockFile,   \* the lock file path of the host: the file it names (0 for none),
              \* how many files were created there, and per file the flock
              \* holder and the pid text
  file,       \* getLock(): the lock file each process holds open (0 for none)
  inspected,  \* checkContainerImageVersion called alone: what the two inspect
              \* calls answer
  needsUpdate, \* checkContainerImageVersion called alone: the flag it returned
  restarted,  \* getPersistentContainer: its ContainerStart found the container
              \* not running
  rows,       \* list(): the table rows written, each <<state, profile label, ID>>
  cfg,        \* the merged configuration: per profile name its path setting
              \* (<<>> when it has none) and its default setting, and the
              \* defaults.profile setting ("" when it has none)
  defProfileName, \* parseConfigs: the name getDefaultProfile returned
  now,        \* time.Now() of the host
  cache,      \* the timestamp cache file: per image the time of its last
              \* recorded pull (NoRecord when it has none)
  curProfile, \* the update settings of the active profile: Arch,
              \* UpdateInterval, MinimumDate
  args,       \* checkUpdate/update: the all and force arguments and the caller
  checkData,  \* checkUpdate/update: the ImageCheckData read from the cache
  images,     \* update: the images still to pull
  pulled,     \* update: the ImagePull calls of this call, each <<image, result>>
  written,    \* update: the contents this call wrote to the cache file
  leaked,     \* the lock file a process still holds locked through a
              \* descriptor no variable refers to (0 for none)
  blockedBy,  \* getLock: the holder that made the last flock fail (0 for none)
  checkedAt,  \* checkUpdate: time.Now() when checkImageDate ran
  steps,      \* shell(): the steps of the exec session taken so far, each
              \* <<step, result>>
  cid,        \* containerID (0 is "")
  name,       \* container name computed by startContainer
  err,        \* the error shell() returned ("nil" for none)
  calls,      \* engine API calls the process has issued, in order
  seen,       \* containers returned by ContainerList in getPersistentContainer
  prev,       \* the profile and container of the previous invocation in this
              \* terminal, when it returned nil
  warned,     \* the out-of-date image warning was printed
  stream,     \* attach stream: lines received and not yet scanned
  eof,        \* attach stream reached end-of-stream
  copier,     \* the StdCopy goroutine feeding the pipe
  echoed,     \* lines the readiness scan printed
  wd,         \* working directory computed by getWorkingDir
  termMode,   \* host terminal mode
  outLoop,    \* goroutine io.Copy(os.Stdout, hijack.Reader) and its send on outErr
  inLoop,     \* goroutine io.Copy(hijack.Conn, os.Stdin) and its send on inErr
  remoteN,    \* bytes the remote command writes before it exits
  delivered,  \* bytes written to host stdout
  firstDone   \* the channel the first select received from, and the value

engVars == <<ctr>>

lockVars == <<lockFile, file>>

driftVars == <<inspected, needsUpdate>>

cfgVars == <<cfg, defProfileName>>

updVars ==
  <<now, cache, curProfile, args, checkData, images, pulled, written, leaked, blockedBy,
    checkedAt>>

hostVars == <<cfgVars, updVars>>

auxButSteps == <<mainSt, resizes, lockVars, driftVars, restarted, rows, hostVars>>

auxVars == <<auxButSteps, steps>>

envButSteps == <<root, cwd, stopArgs, todo, errs, auxButSteps>>

envVars == <<root, cwd, stopArgs, todo, errs, auxVars>>

procVars == <<pc, prof, envVars, cid, name, err, calls, seen, prev, warned, wd>>

scanVars == <<stream, eof, copier, echoed>>

bridgeVars == <<termMode, outLoop, inLoop, remoteN, delivered, firstDone>>

vars == <<ctr, pc, prof, envVars, cid, name, err, calls, seen, prev, warned, wd,
          stream, eof, copier, echoed, termMode, outLoop, inLoop, remoteN,
          delivered, firstDone>>

NoCtr ==
  [st |-> "none", name |-> <<>>, type |-> "", profile |-> <<>>, hasData |-> FALSE,
   data |-> <<>>, auto |-> FALSE, phase |-> "off", nlines |-> 0]

\* engine-assigned ID of the next container
NextId == Cardinality({c \in Ctrs : ctr[c].st # "none"}) + 1

Exists(c) == ctr[c].st \in {"created", "running", "exited"}

NameInUse(n) == \E c \in Ctrs : Exists(c) /\ ctr[c].name = n

\* the label filter of getPersistentContainer, with ListOptions{All: true}
MatchingWrongLabel(p) ==
  {c \in Ctrs : Exists(c) /\ ctr[c].type = "persistent"
                /\ ctr[c].profile = <<p.name, "/">>}

Matching(p) ==
  {c \in Ctrs : Exists(c) /\ ctr[c].type = "persistent"
                /\ ctr[c].profile = ProfileLabel(p)}

NoInspect == [ctrOk |-> TRUE, imgOk |-> TRUE, containerImageID |-> "", imageID |-> ""]

LockFiles == 1..MaxLockFiles

NoLockFile ==
  [path |-> 0, made |-> 0, holder |-> [i \in LockFiles |-> 0], pid |-> [i \in LockFiles |-> 0]]

NoMain == [cmd |-> "", printed |-> <<>>, status |-> -1]

NoStopArgs == [all |-> FALSE, terminate |-> FALSE]

NoPrev == [prof |-> NoProfile, exec |-> 0]

\* no canon process has started yet
\* nothing configured, nothing selected
NoConfig == [profiles |-> [n \in ProfNames |-> [path |-> <<>>, def |-> FALSE]], defaults |-> ""]

\* no update in progress
NoArgs == [all |-> FALSE, force |-> FALSE, from |-> ""]

NoCheckData == [i \in ImageDefs |-> NoRecord]

IdleUpdate ==
  /\ args = [p \in Procs |-> NoArgs]
  /\ checkData = [p \in Procs |-> NoCheckData]
  /\ images = [p \in Procs |-> {}]
  /\ pulled = [p \in Procs |-> <<>>]
  /\ written = [p \in Procs |-> <<>>]
  /\ leaked = [p \in Procs |-> 0]
  /\ blockedBy = [p \in Procs |-> 0]
  /\ checkedAt = [p \in Procs |-> 0]

\* a host at time 0 with an empty cache and the default update settings
\* (config.go 50-51)
IdleHost ==
  /\ cfg = NoConfig
  /\ defProfileName = [p \in Procs |-> ""]
  /\ now = 0
  /\ cache = NoCheckData
  /\ curProfile = [Arch |-> "amd64", UpdateInterval |-> 1, MinimumDate |-> 0]
  /\ IdleUpdate

\* every process idle, whatever the host's configuration, clock and cache
CheckRest ==
  /\ pc = [p \in Procs |-> "idle"]
  /\ prof = [p \in Procs |-> NoProfile]
  /\ root = [p \in Procs |-> ProfilePath]
  /\ cwd = [p \in Procs |-> <<>>]
  /\ stopArgs = [p \in Procs |-> NoStopArgs]
  /\ todo = [p \in Procs |-> <<>>]
  /\ errs = [p \in Procs |-> <<>>]
  /\ mainSt = [p \in Procs |-> NoMain]
  /\ resizes = [p \in Procs |-> <<>>]
  /\ lockFile = NoLockFile
  /\ file = [p \in Procs |-> 0]
  /\ inspected = [p \in Procs |-> NoInspect]
  /\ needsUpdate = [p \in Procs |-> FALSE]
  /\ restarted = [p \in Procs |-> FALSE]
  /\ rows = [p \in Procs |-> <<>>]
  /\ steps = [p \in Procs |-> <<>>]
  /\ cid = [p \in Procs |-> 0]
  /\ name = [p \in Procs |-> <<>>]
  /\ err = [p \in Procs |-> "nil"]
  /\ calls = [p \in Procs |-> <<>>]
  /\ seen = [p \in Procs |-> {}]
  /\ prev = [p \in Procs |-> NoPrev]
  /\ warned = [p \in Procs |-> FALSE]
  /\ wd = [p \in Procs |-> <<>>]
  /\ stream = [p \in Procs |-> <<>>]
  /\ eof = [p \in Procs |-> FALSE]
  /\ copier = [p \in Procs |-> "off"]
  /\ echoed = [p \in Procs |-> <<>>]
  /\ termMode = [p \in Procs |-> "cooked"]
  /\ outLoop = [p \in Procs |-> "off"]
  /\ inLoop = [p \in Procs |-> "off"]
  /\ remoteN = [p \in Procs |-> 0]
  /\ delivered = [p \in Procs |-> 0]
  /\ firstDone = [p \in Procs |-> <<>>]

IdleProcs ==
  /\ pc = [p \in Procs |-> "idle"]
  /\ prof = [p \in Procs |-> NoProfile]
  /\ root = [p \in Procs |-> ProfilePath]
  /\ cwd = [p \in Procs |-> <<>>]
  /\ stopArgs = [p \in Procs |-> NoStopArgs]
  /\ todo = [p \in Procs |-> <<>>]
  /\ errs = [p \in Procs |-> <<>>]
  /\ mainSt = [p \in Procs |-> NoMain]
  /\ resizes = [p \in Procs |-> <<>>]
  /\ lockFile = NoLockFile
  /\ file = [p \in Procs |-> 0]
  /\ inspected = [p \in Procs |-> NoInspect]
  /\ needsUpdate = [p \in Procs |-> FALSE]
  /\ restarted = [p \in Procs |-> FALSE]
  /\ rows = [p \in Procs |-> <<>>]
  /\ steps = [p \in Procs |-> <<>>]
  /\ IdleHost
  /\ cid = [p \in Procs |-> 0]
  /\ name = [p \in Procs |-> <<>>]
  /\ err = [p \in Procs |-> "nil"]
  /\ calls = [p \in Procs |-> <<>>]
  /\ seen = [p \in Procs |-> {}]
  /\ prev = [p \in Procs |-> NoPrev]
  /\ warned = [p \in Procs |-> FALSE]
  /\ wd = [p \in Procs |-> <<>>]
  /\ stream = [p \in Procs |-> <<>>]
  /\ eof = [p \in Procs |-> FALSE]
  /\ copier = [p \in Procs |-> "off"]
  /\ echoed = [p \in Procs |-> <<>>]
  /\ termMode = [p \in Procs |-> "cooked"]
  /\ outLoop = [p \in Procs |-> "off"]
  /\ inLoop = [p \in Procs |-> "off"]
  /\ remoteN = [p \in Procs |-> 0]
  /\ delivered = [p \in Procs |-> 0]
  /\ firstDone = [p \in Procs |-> <<>>]

Init ==
  /\ ctr = [c \in Ctrs |-> NoCtr]
  /\ IdleProcs

\* ------------------------------------------------------------- helpers
Call(p, op, c) == calls' = [calls EXCEPT ![p] = Append(@, <<op, c>>)]

\* shell() returns e from a point before raw mode was engaged
Return(p, e) ==
  /\ pc' = [pc EXCEPT ![p] = "done"]
  /\ err' = [err EXCEPT ![p] = e]

Goto(p, l) ==
  /\ pc' = [pc EXCEPT ![p] = l]
  /\ UNCHANGED err

\* startContainer returns: its locals go, the deferred hijack.Close() runs
LeaveStartContainer(p) ==
  /\ name' = [name EXCEPT ![p] = <<>>]
  /\ stream' = [stream EXCEPT ![p] = <<>>]
  /\ eof' = [eof EXCEPT ![p] = FALSE]
  /\ copier' = [copier EXCEPT ![p] = "off"]

\* the processes whose attach stream (startContainer's hijack) is open on c
Attached(c) == {p \in Procs : cid[p] = c /\ pc[p] \in {"start", "scan", "scanned"}}

Issued(p, op) == {calls[p][i][2] : i \in {j \in 1..Len(calls[p]) : calls[p][j][1] = op}}

HasCall(p, op) == \E i \in 1..Len(calls[p]) : calls[p][i][1] = op

\* ------------------------------------------------ shell(): acquisition
\* A canon process starts shell() with its resolved profile (shell.go 22-50).
Begin(p) ==
  /\ pc[p] \in {"idle", "done"}
  /\ \E pr \in Profiles, clientOk \in BOOLEAN, dir \in Cwds :
       /\ prof' = [prof EXCEPT ![p] = pr]
       /\ cwd' = [cwd EXCEPT ![p] = dir]
       /\ pc' = [pc EXCEPT ![p] =
                   IF ~clientOk THEN "done"
                   ELSE IF pr.persistent THEN "getPersistent" ELSE "startContainer"]
       /\ err' = [err EXCEPT ![p] = IF clientOk THEN "nil" ELSE "client"]
  /\ prev' = [prev EXCEPT ![p] =
                 IF pc[p] = "done" /\ err[p] = "nil"
                 THEN [prof |-> prof[p], exec |-> cid[p]] ELSE NoPrev]
  /\ cid' = [cid EXCEPT ![p] = 0]
  /\ name' = [name EXCEPT ![p] = <<>>]
  /\ calls' = [calls EXCEPT ![p] = <<>>]
  /\ seen' = [seen EXCEPT ![p] = {}]
  /\ warned' = [warned EXCEPT ![p] = FALSE]
  /\ wd' = [wd EXCEPT ![p] = <<>>]
  /\ stream' = [stream EXCEPT ![p] = <<>>]
  /\ eof' = [eof EXCEPT ![p] = FALSE]
  /\ copier' = [copier EXCEPT ![p] = "off"]
  /\ echoed' = [echoed EXCEPT ![p] = <<>>]
  /\ termMode' = [termMode EXCEPT ![p] = "cooked"]
  /\ outLoop' = [outLoop EXCEPT ![p] = "off"]
  /\ inLoop' = [inLoop EXCEPT ![p] = "off"]
  /\ remoteN' = [remoteN EXCEPT ![p] = 0]
  /\ delivered' = [delivered EXCEPT ![p] = 0]
  /\ firstDone' = [firstDone EXCEPT ![p] = <<>>]
  /\ resizes' = [resizes EXCEPT ![p] = <<>>]
  /\ restarted' = [restarted EXCEPT ![p] = FALSE]
  /\ steps' = [steps EXCEPT ![p] = <<>>]
  /\ UNCHANGED <<ctr, root, stopArgs, todo, errs, mainSt, lockVars, driftVars, rows, hostVars>>

\* the decision of getPersistentContainer on the list it got (shell.go 479-501):
\* the error it returns, "nil" when it goes on
PersistentVerdictNoDrift(p, m) ==
  IF Cardinality(m) > 1 THEN "ambiguous"
  ELSE IF Cardinality(m) < 1 THEN "nil"
  ELSE LET c == CHOOSE x \in m : TRUE IN
       IF ~ctr[c].hasData THEN "nodata" ELSE "nil"

PersistentVerdictTrustsUnlabelled(p, m) ==
  IF Cardinality(m) > 1 THEN "ambiguous"
  ELSE IF Cardinality(m) < 1 THEN "nil"
  ELSE LET c == CHOOSE x \in m : TRUE IN
       IF ~ctr[c].hasData THEN "nil"
       ELSE IF ctr[c].data # ProfileYaml(p) THEN "drift"
       ELSE "nil"

PersistentVerdictNoCount(p, m) ==
  IF m = {} THEN "nil"
  ELSE LET c == CHOOSE x \in m : TRUE IN
       IF ~ctr[c].hasData THEN "nodata"
       ELSE IF ctr[c].data # ProfileYaml(p) THEN "drift"
       ELSE "nil"

PersistentVerdict(p, m) ==
  IF Cardinality(m) > 1 THEN "ambiguous"
  ELSE IF Cardinality(m) < 1 THEN "nil"
  ELSE LET c == CHOOSE x \in m : TRUE IN
       IF ~ctr[c].hasData THEN "nodata"
       ELSE IF ctr[c].data # ProfileYaml(p) THEN "drift"
       ELSE "nil"

\* getPersistentContainer up to its return or its ContainerStart (shell.go 471-501)
GetPersistentContainer(p) ==
  /\ pc[p] = "getPersistent"
  /\ Call(p, "list", 0)
  /\ \E listOk \in BOOLEAN :
       IF ~listOk
       THEN /\ Return(p, "list")
            /\ UNCHANGED <<seen, cid>>
       ELSE LET m == Matching(prof[p])
                v == PersistentVerdict(prof[p], m)
            IN /\ seen' = [seen EXCEPT ![p] = m]
               /\ IF v # "nil"
                  THEN Return(p, v) /\ UNCHANGED cid
                  ELSE IF m = {}
                  THEN Goto(p, "startContainer") /\ UNCHANGED cid
                  ELSE /\ Goto(p, "persistStart")
                       /\ cid' = [cid EXCEPT ![p] = CHOOSE x \in m : TRUE]
  /\ UNCHANGED <<ctr, prof, envVars, name, prev, warned, wd, scanVars, bridgeVars>>

\* the engine starts a container: the entrypoint (canon_setup.sh) runs from its top
StartedNot(c) == ctr

Started(c) == [ctr EXCEPT ![c].st = "running", ![c].phase = "setup", ![c].nlines = 0]

\* return containers[0].ID, cli.ContainerStart(...) (shell.go 503), then 47-49
PersistStart(p) ==
  /\ pc[p] = "persistStart"
  /\ Call(p, "start", cid[p])
  /\ \E ok \in BOOLEAN :
       IF ~ok \/ ~Exists(cid[p])
       THEN Return(p, "start") /\ UNCHANGED <<ctr, restarted>>
       ELSE /\ Goto(p, "checkImage")
            /\ ctr' = IF ctr[cid[p]].st = "running" THEN ctr ELSE Started(cid[p])
            /\ restarted' = [restarted EXCEPT ![p] = ctr[cid[p]].st # "running"]
  /\ UNCHANGED <<prof, root, cwd, stopArgs, todo, errs, mainSt, resizes, lockVars, driftVars,
                 rows, hostVars, steps, cid, name, seen, prev, warned, wd, scanVars, bridgeVars>>

\* checkContainerImageVersion and the warning (shell.go 52-62, 506-523)
CheckImage(p) ==
  /\ pc[p] = "checkImage"
  /\ Call(p, "inspect", cid[p])
  /\ \E ctrOk \in BOOLEAN, imgOk \in BOOLEAN, containerImageID \in ImageIDs,
        imageID \in ImageIDs :
       LET r == checkContainerImageVersion(ctrOk, imgOk, containerImageID, imageID) IN
         IF r.err # "nil"
         THEN Return(p, r.err) /\ UNCHANGED warned
         ELSE /\ warned' = [warned EXCEPT ![p] = r.needsUpdate]
              /\ IF DriftFatal(r.needsUpdate) THEN Return(p, "outdated") ELSE Goto(p, "wd")
  /\ UNCHANGED <<ctr, prof, envVars, cid, name, seen, prev, wd, scanVars, bridgeVars>>

\* ------------------------------------------------------ startContainer
\* mounts, labels and the container name (shell.go 235-349)
StartContainer(p) ==
  /\ pc[p] = "startContainer"
  /\ \E preOk \in BOOLEAN, suffix \in 1..NumSuffix :
       IF ~preOk
       THEN Return(p, "pre") /\ UNCHANGED name
       ELSE /\ Goto(p, "create")
            /\ name' = [name EXCEPT ![p] = ContainerName(prof[p], suffix)]
  /\ UNCHANGED <<ctr, prof, envVars, cid, calls, seen, prev, warned, wd, scanVars, bridgeVars>>

NewCtr(p) ==
  [st |-> "created", name |-> name[p], type |-> TypeLabel(prof[p]),
   profile |-> ProfileLabel(prof[p]), hasData |-> TRUE, data |-> ProfileYaml(prof[p]),
   auto |-> AutoRemove(prof[p]), phase |-> "off", nlines |-> 0]

\* what startContainer does with the outcome of a ContainerCreate
\* (shell.go 351-366): retry is TRUE for the second call
AfterCreatePullsOnAnyError(outcome, retry) ==
  IF outcome = "ok" THEN "attach"
  ELSE IF ~retry THEN "pull"
  ELSE "fail"

AfterCreate(outcome, retry) ==
  IF outcome = "ok" THEN "attach"
  ELSE IF outcome = "noimage" /\ ~retry THEN "pull"
  ELSE "fail"

\* cli.ContainerCreate (shell.go 351, 359): the engine refuses a name in use;
\* the call is logged with the ID it returned, 0 when it failed, and its outcome
ContainerCreate(p) ==
  /\ pc[p] \in {"create", "create2"}
  /\ NextId <= MaxContainers
  /\ \E o \in {"ok", "noimage", "other"} :
       LET outcome == IF o = "ok" /\ NameInUse(name[p]) THEN "conflict" ELSE o
           next == AfterCreate(outcome, pc[p] = "create2")
       IN /\ calls' = [calls EXCEPT ![p] =
                         Append(@, <<"create", IF next = "attach" THEN NextId ELSE 0,
                                     outcome>>)]
          /\ IF next = "fail"
             THEN /\ Return(p, "create") /\ LeaveStartContainer(p)
                  /\ UNCHANGED <<ctr, cid>>
             ELSE IF next = "pull"
             THEN Goto(p, "pull") /\ UNCHANGED <<ctr, cid, name, stream, eof, copier>>
             ELSE /\ Goto(p, "attach")
                  /\ ctr' = [ctr EXCEPT ![NextId] = NewCtr(p)]
                  /\ cid' = [cid EXCEPT ![p] = NextId]
                  /\ UNCHANGED <<name, stream, eof, copier>>
  /\ UNCHANGED <<prof, envVars, seen, prev, warned, wd, echoed, bridgeVars>>

\* update(ImageDef{...}) pulls the image (shell.go 355-358)
Pull(p) ==
  /\ pc[p] = "pull"
  /\ Call(p, "pull", 0)
  /\ \E ok \in BOOLEAN :
       IF ok
       THEN Goto(p, "create2") /\ UNCHANGED <<name, stream, eof, copier>>
       ELSE Return(p, "pull") /\ LeaveStartContainer(p)
  /\ UNCHANGED <<ctr, prof, envVars, cid, seen, prev, warned, wd, echoed, bridgeVars>>

\* cli.ContainerAttach (shell.go 375-379); on failure startContainer returns ""
ContainerAttach(p) ==
  /\ pc[p] = "attach"
  /\ Call(p, "attach", cid[p])
  /\ \E ok \in BOOLEAN :
       IF ~ok
       THEN /\ Return(p, "attach") /\ LeaveStartContainer(p)
            /\ cid' = [cid EXCEPT ![p] = 0]
       ELSE /\ Goto(p, "start")
            /\ UNCHANGED <<cid, name, stream, eof, copier>>
  /\ UNCHANGED <<ctr, prof, envVars, seen, prev, warned, wd, echoed, bridgeVars>>

\* cli.ContainerStart of the new container, then the StdCopy goroutine
\* (shell.go 381-394)
ContainerStart(p) ==
  /\ pc[p] = "start"
  /\ Call(p, "start", cid[p])
  /\ \E ok \in BOOLEAN :
       IF ~ok
       THEN Return(p, "start") /\ LeaveStartContainer(p) /\ UNCHANGED ctr
       ELSE /\ Goto(p, "scan")
            /\ ctr' = Started(cid[p])
            /\ copier' = [copier EXCEPT ![p] = "running"]
            /\ UNCHANGED <<name, stream, eof>>
  /\ UNCHANGED <<prof, envVars, cid, seen, prev, warned, wd, echoed, bridgeVars>>

\* ---------------------------------------- the entrypoint, canon_setup.sh
Deliver(c, line) ==
  stream' = [q \in Procs |-> IF q \in Attached(c) THEN Append(stream[q], line)
                             ELSE stream[q]]

\* output of the setup steps before the marker, seen by an attached reader
ScriptEmit(c) ==
  /\ ctr[c].st = "running" /\ ctr[c].phase = "setup"
  /\ ctr[c].nlines < MaxLines
  /\ Attached(c) # {}
  /\ \E line \in NoiseLines : Deliver(c, line)
  /\ ctr' = [ctr EXCEPT ![c].nlines = @ + 1]
  /\ UNCHANGED <<procVars, eof, copier, echoed, bridgeVars>>

\* echo "CANON_READY", then the idle loop (canon_setup.sh 98-106)
ScriptReady(c) ==
  /\ ctr[c].st = "running" /\ ctr[c].phase = "setup"
  /\ Deliver(c, ReadyLine)
  /\ ctr' = [ctr EXCEPT ![c].phase = "ready", ![c].nlines = 0]
  /\ UNCHANGED <<procVars, eof, copier, echoed, bridgeVars>>

\* the engine's state of a container whose main process has ended
Gone == [NoCtr EXCEPT !.st = "removed"]

Stopped(c) ==
  [ctr EXCEPT ![c] = IF ctr[c].auto THEN Gone
                     ELSE [ctr[c] EXCEPT !.st = "exited", !.phase = "off", !.nlines = 0]]

\* the entrypoint dies during setup; the attach stream ends
ScriptExit(c) ==
  /\ ctr[c].st = "running" /\ ctr[c].phase = "setup"
  /\ ctr' = Stopped(c)
  /\ eof' = [q \in Procs |-> IF q \in Attached(c) THEN TRUE ELSE eof[q]]
  /\ UNCHANGED <<procVars, stream, copier, echoed, bridgeVars>>

\* SIGTERM reaches the idle loop of the entrypoint (canon_setup.sh 99-106): the
\* script leaves the loop and the container ends
ScriptTerm(c) ==
  /\ ctr[c].st = "running" /\ ctr[c].phase = "ready"
  /\ ctr' = Stopped(c)
  /\ eof' = [q \in Procs |-> IF q \in Attached(c) THEN TRUE ELSE eof[q]]
  /\ UNCHANGED <<procVars, stream, copier, echoed, bridgeVars>>

\* ------------------------------------------------- the readiness scan
\* the for scanner.Scan() loop's verdict on one line (shell.go 397-403)
ScanBreaksAlways(line) == TRUE

ScanBreaksExact(line) == HasMarkerExact(line)

ScanBreaks(line) == HasMarker(line)

\* one iteration of the scan loop: print the line, break on the marker and
\* return containerID, scanner.Err() (shell.go 396-404)
ScanLine(p) ==
  /\ pc[p] = "scan"
  /\ stream[p] # <<>>
  /\ LET line == Head(stream[p]) IN
       /\ echoed' = [echoed EXCEPT ![p] = Append(@, line)]
       /\ stream' = [stream EXCEPT ![p] = Tail(@)]
       /\ IF ScanBreaks(line) THEN Goto(p, "scanned") ELSE Goto(p, "scan")
  /\ UNCHANGED <<ctr, prof, envVars, cid, name, calls, seen, prev, warned, wd, eof, copier,
                 bridgeVars>>

\* return containerID, scanner.Err() after the loop broke (shell.go 404):
\* scanner.Err() is nil, the deferred hijack.Close() drops what was not read
ReturnScanned(p) ==
  /\ pc[p] = "scanned"
  /\ Goto(p, "wd")
  /\ LeaveStartContainer(p)
  /\ UNCHANGED <<ctr, prof, envVars, cid, calls, seen, prev, warned, wd, echoed, bridgeVars>>

\* what the StdCopy goroutine does to the pipe when StdCopy returns at the
\* end of the attach stream (shell.go 389-394): it returns, and pipeW stays open
CopierAtEOF == "exited"

StdCopyEOF(p) ==
  /\ pc[p] \in {"scan", "scanned"}
  /\ copier[p] = "running"
  /\ eof[p] /\ stream[p] = <<>>
  /\ copier' = [copier EXCEPT ![p] = CopierAtEOF]
  /\ UNCHANGED <<ctr, procVars, stream, eof, echoed, bridgeVars>>

\* --------------------------------------------------- the exec session
\* getWorkingDir (shell.go 184-195) for profile.Path r and os.Getwd() d: the
\* error and the directory it returns
getWorkingDirJoinsRaw(r, d) ==
  IF ~HasPrefix(d, r) THEN [err |-> "wd", dir |-> <<>>]
  ELSE [err |-> "nil", dir |-> canonMountPoint \o TrimPrefix(d, r)]

getWorkingDir(r, d) ==
  IF ~HasPrefix(d, r) THEN [err |-> "wd", dir |-> <<>>]
  ELSE [err |-> "nil", dir |-> Join(canonMountPoint, TrimPrefix(d, r))]

\* wd, err := getWorkingDir(activeProfile) and its error check (shell.go 70-73)
GetWorkingDir(p) ==
  /\ pc[p] = "wd"
  /\ LET r == getWorkingDir(root[p], cwd[p]) IN
       IF r.err # "nil"
       THEN Return(p, r.err) /\ UNCHANGED wd
       ELSE /\ Goto(p, "execCreate")
            /\ wd' = [wd EXCEPT ![p] = r.dir]
  /\ UNCHANGED <<ctr, prof, envVars, cid, name, calls, seen, prev, warned, scanVars,
                 bridgeVars>>

\* a step of the exec session is taken
Step(p, s) == steps' = [steps EXCEPT ![p] = Append(@, s)]

\* cli.ContainerExecCreate (shell.go 88-92): the engine refuses a container
\* that is not running
ContainerExecCreate(p) ==
  /\ pc[p] = "execCreate"
  /\ Call(p, "execCreate", cid[p])
  /\ \E ok \in BOOLEAN :
       IF ok /\ ctr[cid[p]].st = "running"
       THEN Goto(p, "execAttach") /\ Step(p, <<"execCreate", "ok">>)
       ELSE Return(p, "execCreate") /\ Step(p, <<"execCreate", "failed">>)
  /\ UNCHANGED <<ctr, prof, envButSteps, cid, name, seen, prev, warned, wd, scanVars,
                 bridgeVars>>

\* the error check after cli.ContainerExecAttach (shell.go 95-97)
AttachFatalNever(e) == FALSE

AttachFatal(e) == e # "ok"

\* cli.ContainerExecAttach (shell.go 94-98)
ContainerExecAttach(p) ==
  /\ pc[p] = "execAttach"
  /\ Call(p, "execAttach", cid[p])
  /\ \E e \in {"ok", "failed"} :
       /\ Step(p, <<"execAttach", e>>)
       /\ IF AttachFatal(e) THEN Return(p, "execAttach") ELSE Goto(p, "resize")
  /\ UNCHANGED <<ctr, prof, envButSteps, cid, name, seen, prev, warned, wd, scanVars,
                 bridgeVars>>

\* the errors of resizeTty that shell() lets pass (shell.go 102-108)
ResizeFatalAlways(e) == e # "nil"

ResizeFatal(e) == e \notin {"nil", "stopped container", "no such exec"}

\* what resizeTty returns (shell.go 161-171): nil, the error of GetWinsize, or
\* an error of ContainerExecResize
ResizeErrors == {"nil", "winsize", "stopped container", "no such exec", "other"}

\* resizeTty, then monitorTtySize (shell.go 100-109)
Resize(p) ==
  /\ pc[p] = "resize"
  /\ Call(p, "execResize", cid[p])
  /\ \E e \in ResizeErrors :
       /\ resizes' = [resizes EXCEPT ![p] = Append(@, <<"initial", e>>)]
       /\ IF ResizeFatal(e)
          THEN Return(p, "resize") /\ Step(p, <<"resize", e>>)
          ELSE /\ Goto(p, "raw")
               /\ steps' = [steps EXCEPT ![p] = @ \o << <<"resize", e>>, <<"monitor", "ok">> >>]
  /\ UNCHANGED <<ctr, prof, root, cwd, stopArgs, todo, errs, mainSt, lockVars, driftVars, restarted, rows, hostVars, cid, name,
                 seen, prev, warned, wd, scanVars, bridgeVars>>

\* the goroutine of monitorTtySize (shell.go 173-182) lives from the initial
\* resize to the end of the process
Monitored(p) == pc[p] \in {"raw", "execStart", "select1", "select2", "stop", "wait"}

Winches(p) == SelectSeq(resizes[p], LAMBDA r : r[1] = "winch")

\* a SIGWINCH arrives: the goroutine calls resizeTty and drops its error
Winch(p) ==
  /\ Monitored(p)
  /\ Len(Winches(p)) < MaxWinch
  /\ \E e \in ResizeErrors :
       resizes' = [resizes EXCEPT ![p] = Append(@, <<"winch", e>>)]
  /\ UNCHANGED <<ctr, pc, err, prof, root, cwd, stopArgs, todo, errs, mainSt, lockVars, driftVars, restarted, rows, hostVars, steps, cid,
                 name, calls, seen, prev, warned, wd, scanVars, bridgeVars>>

\* term.SetRawTerminal and the deferred restore (shell.go 111-117)
SetRawTerminal(p) ==
  /\ pc[p] = "raw"
  /\ \E ok \in BOOLEAN :
       IF ok
       THEN /\ Goto(p, "execStart") /\ termMode' = [termMode EXCEPT ![p] = "raw"]
            /\ Step(p, <<"raw", "ok">>)
       ELSE /\ Return(p, "raw") /\ UNCHANGED termMode
            /\ Step(p, <<"raw", "failed">>)
  /\ UNCHANGED <<ctr, prof, envButSteps, cid, name, calls, seen, prev, warned, wd, scanVars,
                 outLoop, inLoop, remoteN, delivered, firstDone>>

\* shell() returns e after raw mode was engaged: the deferred RestoreTerminal runs
ReturnNotRestored(p, e) ==
  /\ Return(p, e)
  /\ UNCHANGED termMode

ReturnRestored(p, e) ==
  /\ Return(p, e)
  /\ termMode' = [termMode EXCEPT ![p] = "cooked"]

\* the two copy goroutines are launched, then cli.ContainerExecStart
\* (shell.go 119-133); the remote command will write n bytes and exit
ContainerExecStart(p) ==
  /\ pc[p] = "execStart"
  /\ Call(p, "execStart", cid[p])
  /\ \E ok \in BOOLEAN, n \in 0..MaxBytes :
       IF ok
       THEN /\ Goto(p, "select1")
            /\ remoteN' = [remoteN EXCEPT ![p] = n]
            /\ outLoop' = [outLoop EXCEPT ![p] = "copy"]
            /\ inLoop' = [inLoop EXCEPT ![p] = "copy"]
            /\ UNCHANGED termMode
       ELSE /\ ReturnRestored(p, "execStart")
            /\ UNCHANGED <<remoteN, outLoop, inLoop>>
  /\ \E ok \in {"ok", "failed"} :
       /\ ok = "ok" <=> pc'[p] = "select1"
       /\ steps' = [steps EXCEPT ![p] =
                      @ \o << <<"outLoop", "ok">>, <<"inLoop", "ok">>, <<"execStart", ok>> >>]
  /\ UNCHANGED <<ctr, prof, envButSteps, cid, name, seen, prev, warned, wd, scanVars, delivered,
                 firstDone>>

\* ------------------------------------------------ the interactive bridge
InBridge(p) == pc[p] \in {"select1", "select2"}

\* io.Copy(os.Stdout, hijack.Reader) moves one byte (shell.go 122)
OutCopy(p) ==
  /\ InBridge(p) /\ outLoop[p] = "copy"
  /\ delivered[p] < remoteN[p]
  /\ delivered' = [delivered EXCEPT ![p] = @ + 1]
  /\ UNCHANGED <<ctr, procVars, scanVars, termMode, outLoop, inLoop, remoteN, firstDone>>

\* io.Copy(os.Stdout, hijack.Reader) returns: nil at the remote's end-of-stream
\* after everything was written, an error at a failed read or write; the
\* goroutine then offers it on outErr (shell.go 122-123)
OutEnd(p) ==
  /\ InBridge(p) /\ outLoop[p] = "copy"
  /\ \E e \in {"nil", "err"} :
       /\ e = "nil" => delivered[p] = remoteN[p]
       /\ outLoop' = [outLoop EXCEPT ![p] = e]
  /\ UNCHANGED <<ctr, procVars, scanVars, termMode, inLoop, remoteN, delivered, firstDone>>

\* io.Copy(hijack.Conn, os.Stdin) returns, with nil at the end of the host's
\* stdin, and the goroutine offers it on inErr (shell.go 126-127)
InEnd(p) ==
  /\ InBridge(p) /\ inLoop[p] = "copy"
  /\ \E e \in {"nil", "err"} : inLoop' = [inLoop EXCEPT ![p] = e]
  /\ UNCHANGED <<ctr, procVars, scanVars, termMode, outLoop, remoteN, delivered, firstDone>>

\* where shell() goes after the bridge (shell.go 155-158)
ReleaseNever(pr) == FALSE

ReleaseAlways(pr) == TRUE

Release(pr) == ~pr.persistent

\* the bridge is over without error: stop a one-shot container, else return nil
Teardown(p) ==
  IF Release(prof[p])
  THEN Goto(p, "stop") /\ UNCHANGED termMode
  ELSE ReturnRestored(p, "nil")

\* what the select does with an error received from inErr (shell.go 141-145)
AfterInErrWaitsAlways(e) == "wait"

AfterInErr(e) == IF e # "nil" THEN "return" ELSE "wait"

\* what the select does with an error received from outErr (shell.go 136-140,
\* 146-149): return it, or leave the select
AfterOutErrIgnores(e) == "break"

AfterOutErr(e) == IF e = "err" THEN "return" ELSE "break"

\* a receive from outErr can proceed: the outbound goroutine offers its result
OutErrReadyAlways(p) == TRUE

OutErrReady(p) == outLoop[p] \in {"nil", "err"}

\* the first select (shell.go 135-145)
Select1(p) ==
  /\ pc[p] = "select1"
  /\ \/ /\ OutErrReady(p)
        /\ outLoop' = [outLoop EXCEPT ![p] = "done"]
        /\ firstDone' = [firstDone EXCEPT ![p] = <<"out", outLoop[p]>>]
        /\ IF AfterOutErr(outLoop[p]) = "return"
           THEN ReturnRestored(p, "outCopy")
           ELSE Teardown(p)
        /\ UNCHANGED inLoop
     \/ /\ inLoop[p] \in {"nil", "err"}
        /\ inLoop' = [inLoop EXCEPT ![p] = "done"]
        /\ firstDone' = [firstDone EXCEPT ![p] = <<"in", inLoop[p]>>]
        /\ IF AfterInErr(inLoop[p]) = "return"
           THEN ReturnRestored(p, "inCopy")
           ELSE Goto(p, "select2") /\ UNCHANGED termMode
        /\ UNCHANGED outLoop
  /\ UNCHANGED <<ctr, prof, envVars, cid, name, calls, seen, prev, warned, wd, scanVars,
                 remoteN, delivered>>

\* the second select, after inErr delivered nil (shell.go 145-152)
Select2(p) ==
  /\ pc[p] = "select2"
  /\ IF CtxDone
     THEN ReturnRestored(p, "cancel") /\ UNCHANGED outLoop
     ELSE /\ OutErrReady(p)
          /\ outLoop' = [outLoop EXCEPT ![p] = "done"]
          /\ IF AfterOutErr(outLoop[p]) = "return"
           THEN ReturnRestored(p, "outCopy")
           ELSE Teardown(p)
  /\ UNCHANGED <<ctr, prof, envVars, cid, name, calls, seen, prev, warned, wd, scanVars,
                 inLoop, remoteN, delivered, firstDone>>

\* ------------------------------------------------------ stopContainer
\* what the engine answers to ContainerStop: nil or a failure for a container
\* it has, "No such container" for one it has not
StopErrors(c) == IF Exists(c) THEN {"nil", "stop"} ELSE {"No such container"}

\* cli.ContainerStop (container.go 33-38)
ContainerStop(p) ==
  /\ pc[p] = "stop"
  /\ Call(p, "stop", cid[p])
  /\ \E e \in StopErrors(cid[p]) :
       IF e = "nil"
       THEN /\ Goto(p, "wait") /\ UNCHANGED termMode
            /\ ctr' = IF ctr[cid[p]].st = "running" THEN Stopped(cid[p]) ELSE ctr
       ELSE ReturnRestored(p, e) /\ UNCHANGED ctr
  /\ UNCHANGED <<prof, envVars, cid, name, seen, prev, warned, wd, scanVars, outLoop, inLoop,
                 remoteN, delivered, firstDone>>

\* the errors of ContainerWait that stopContainer lets pass (container.go 43-53)
WaitFatal(e) == e \notin {"nil", "No such container"}

\* cli.ContainerWait for removal (container.go 40-54)
ContainerWait(p) ==
  /\ pc[p] = "wait"
  /\ Call(p, "wait", cid[p])
  /\ \E e \in {"nil", "No such container", "other"} :
       ReturnRestored(p, IF WaitFatal(e) THEN "wait" ELSE "nil")
  /\ UNCHANGED <<ctr, prof, envVars, cid, name, seen, prev, warned, wd, scanVars, outLoop,
                 inLoop, remoteN, delivered, firstDone>>

\* ---------------------------------------------------------------- Next
\* canon invocations run one after another in one terminal
Sequential == {1}

Next ==
  \/ \E p \in Sequential : Begin(p)
  \/ \E p \in Sequential : GetPersistentContainer(p)
  \/ \E p \in Sequential : PersistStart(p)
  \/ \E p \in Sequential : CheckImage(p)
  \/ \E p \in Sequential : StartContainer(p)
  \/ \E p \in Sequential : ContainerCreate(p)
  \/ \E p \in Sequential : Pull(p)
  \/ \E p \in Sequential : ContainerAttach(p)
  \/ \E p \in Sequential : ContainerStart(p)
  \/ \E c \in Ctrs : ScriptEmit(c)
  \/ \E c \in Ctrs : ScriptReady(c)
  \/ \E c \in Ctrs : ScriptExit(c)
  \/ \E p \in Sequential : ScanLine(p)
  \/ \E p \in Sequential : ReturnScanned(p)
  \/ \E p \in Sequential : StdCopyEOF(p)
  \/ \E p \in Sequential : GetWorkingDir(p)
  \/ \E p \in Sequential : ContainerExecCreate(p)
  \/ \E p \in Sequential : ContainerExecAttach(p)
  \/ \E p \in Sequential : Resize(p)
  \/ \E p \in Sequential : SetRawTerminal(p)
  \/ \E p \in Sequential : ContainerExecStart(p)
  \/ \E p \in Sequential : OutCopy(p)
  \/ \E p \in Sequential : OutEnd(p)
  \/ \E p \in Sequential : InEnd(p)
  \/ \E p \in Sequential : Select1(p)
  \/ \E p \in Sequential : Select2(p)
  \/ \E p \in Sequential : ContainerStop(p)
  \/ \E p \in Sequential : ContainerWait(p)

Spec == Init /\ [][Next]_vars

\* one-shot sessions with window-size signals arriving while they run: images
\* are present, and a persistent profile is followed no further than Begin
NextWinch ==
  \/ \E p \in Sequential : Begin(p)
  \/ \E p \in Sequential : StartContainer(p)
  \/ \E p \in Sequential : ContainerCreate(p)
  \/ \E p \in Sequential : ContainerAttach(p)
  \/ \E p \in Sequential : ContainerStart(p)
  \/ \E c \in Ctrs : ScriptReady(c)
  \/ \E c \in Ctrs : ScriptExit(c)
  \/ \E p \in Sequential : ScanLine(p)
  \/ \E p \in Sequential : ReturnScanned(p)
  \/ \E p \in Sequential : StdCopyEOF(p)
  \/ \E p \in Sequential : GetWorkingDir(p)
  \/ \E p \in Sequential : ContainerExecCreate(p)
  \/ \E p \in Sequential : ContainerExecAttach(p)
  \/ \E p \in Sequential : Resize(p)
  \/ \E p \in Sequential : SetRawTerminal(p)
  \/ \E p \in Sequential : ContainerExecStart(p)
  \/ \E p \in Sequential : OutCopy(p)
  \/ \E p \in Sequential : OutEnd(p)
  \/ \E p \in Sequential : InEnd(p)
  \/ \E p \in Sequential : Select1(p)
  \/ \E p \in Sequential : Select2(p)
  \/ \E p \in Sequential : ContainerStop(p)
  \/ \E p \in Sequential : ContainerWait(p)
  \/ \E p \in Sequential : Winch(p)

SpecWinch == Init /\ [][NextWinch]_vars

\* one-shot sessions whose container can be ended from outside at any moment
NextRelease ==
  \/ \E p \in Sequential : Begin(p)
  \/ \E p \in Sequential : StartContainer(p)
  \/ \E p \in Sequential : ContainerCreate(p)
  \/ \E p \in Sequential : ContainerAttach(p)
  \/ \E p \in Sequential : ContainerStart(p)
  \/ \E c \in Ctrs : ScriptReady(c)
  \/ \E c \in Ctrs : ScriptExit(c)
  \/ \E p \in Sequential : ScanLine(p)
  \/ \E p \in Sequential : ReturnScanned(p)
  \/ \E p \in Sequential : StdCopyEOF(p)
  \/ \E p \in Sequential : GetWorkingDir(p)
  \/ \E p \in Sequential : ContainerExecCreate(p)
  \/ \E p \in Sequential : ContainerExecAttach(p)
  \/ \E p \in Sequential : Resize(p)
  \/ \E p \in Sequential : SetRawTerminal(p)
  \/ \E p \in Sequential : ContainerExecStart(p)
  \/ \E p \in Sequential : OutCopy(p)
  \/ \E p \in Sequential : OutEnd(p)
  \/ \E p \in Sequential : InEnd(p)
  \/ \E p \in Sequential : Select1(p)
  \/ \E p \in Sequential : Select2(p)
  \/ \E p \in Sequential : ContainerStop(p)
  \/ \E p \in Sequential : ContainerWait(p)
  \/ \E c \in Ctrs : ScriptTerm(c)

SpecRelease == Init /\ [][NextRelease]_vars

\* the engine already holds a container that carries canon's type and profile
\* labels, with or without the profile-data label (a container made by other
\* means than startContainer); invocations are followed up to their exec session
ForeignCtrs ==
  { [NoCtr EXCEPT !.st = st, !.name = <<"foreign">>, !.type = "persistent",
                  !.profile = ProfileLabel(pr), !.hasData = has,
                  !.data = IF has THEN ProfileYaml(pr) ELSE <<>>,
                  !.phase = IF st = "running" THEN "ready" ELSE "off"] :
      st \in {"running", "exited"}, pr \in {q \in Profiles : q.persistent},
      has \in BOOLEAN }

InitForeign ==
  /\ ctr \in {[c \in Ctrs |-> IF c = 1 THEN f ELSE NoCtr] : f \in ForeignCtrs}
  /\ IdleProcs

NextForeign ==
  \/ \E p \in Sequential : Begin(p)
  \/ \E p \in Sequential : GetPersistentContainer(p)
  \/ \E p \in Sequential : PersistStart(p)
  \/ \E p \in Sequential : CheckImage(p)
  \/ \E p \in Sequential : GetWorkingDir(p)
  \/ \E p \in Sequential : ContainerExecCreate(p)

SpecForeign == InitForeign /\ [][NextForeign]_vars

\* two canon processes run at the same time, each followed up to the point
\* where it holds a container to run its command in
NextRace ==
  \/ \E p \in Procs : Begin(p)
  \/ \E p \in Procs : GetPersistentContainer(p)
  \/ \E p \in Procs : PersistStart(p)
  \/ \E p \in Procs : StartContainer(p)
  \/ \E p \in Procs : ContainerCreate(p)
  \/ \E p \in Procs : Pull(p)
  \/ \E p \in Procs : ContainerAttach(p)
  \/ \E p \in Procs : ContainerStart(p)

SpecRace == Init /\ [][NextRace]_vars

\* one canon process from its start to the return of startContainer, with the
\* engine and the entrypoint; every step that can be taken is taken eventually
\* (a call returns, the scanner reads a line that is there); the engine starts
\* empty, so the list of getPersistentContainer is empty and nothing is reused
NextStart ==
  \/ \E p \in Sequential : pc[p] = "idle" /\ Begin(p)
  \/ \E p \in Sequential : GetPersistentContainer(p)
  \/ \E p \in Sequential : StartContainer(p)
  \/ \E p \in Sequential : ContainerCreate(p)
  \/ \E p \in Sequential : Pull(p)
  \/ \E p \in Sequential : ContainerAttach(p)
  \/ \E p \in Sequential : ContainerStart(p)
  \/ \E c \in Ctrs : ScriptEmit(c)
  \/ \E c \in Ctrs : ScriptReady(c)
  \/ \E c \in Ctrs : ScriptExit(c)
  \/ \E p \in Sequential : ScanLine(p)
  \/ \E p \in Sequential : ReturnScanned(p)
  \/ \E p \in Sequential : StdCopyEOF(p)

SpecStart == Init /\ [][NextStart]_vars /\ WF_vars(NextStart)

\* ------------------------------------------------- stop(): stop, terminate
\* the containers an engine may hold when canon stop or terminate is run: a
\* one-shot container is removed when it exits, so it is found running
OtherLabel == <<"b", "/", "amd64">>

EngineCtrs ==
  {NoCtr} \cup
  { [NoCtr EXCEPT !.st = x.st, !.type = x.type, !.profile = l, !.hasData = TRUE,
                  !.auto = (x.type = "one-shot"), !.phase = IF x.st = "running" THEN "ready" ELSE "off"] :
      x \in { [st |-> "running", type |-> "persistent"],
              [st |-> "exited", type |-> "persistent"],
              [st |-> "running", type |-> "one-shot"] },
      l \in {<<"a", "/", "amd64">>, OtherLabel} }

\* the label filter of stop (shell.go 412-418), with ListOptions{All: true}
StopMatching(pr, all) ==
  {c \in Ctrs : Exists(c) /\ (all \/ ctr[c].profile = ProfileLabel(pr))}

\* the orders in which ContainerList may return the containers of m
RECURSIVE Orders(_)
Orders(m) ==
  IF m = {} THEN {<<>>}
  ELSE UNION { {<<c>> \o o : o \in Orders(m \ {c})} : c \in m }

\* stop's check of the list it got (shell.go 422-424)
StopVerdictNeverRefuses(n, all) == "nil"

StopVerdict(n, all) == IF n > 1 /\ ~all THEN "multiple" ELSE "nil"

\* err = errors.Join(err, e) (shell.go 428, 431), as the list of what is joined
errorsJoinKeepsLast(acc, e) == IF e = "nil" THEN <<>> ELSE <<e>>

errorsJoin(acc, e) == IF e = "nil" THEN acc ELSE Append(acc, e)

\* the error stop returns for what it joined
Joined(acc) == IF acc = <<>> THEN "nil" ELSE "joined"

\* canon stop / canon terminate starts stop() (shell.go 407-411)
StopBegin(p) ==
  /\ pc[p] = "idle"
  /\ \E pr \in Profiles, all \in BOOLEAN, terminate \in BOOLEAN, clientOk \in BOOLEAN :
       /\ prof' = [prof EXCEPT ![p] = pr]
       /\ stopArgs' = [stopArgs EXCEPT ![p] = [all |-> all, terminate |-> terminate]]
       /\ IF clientOk THEN Goto(p, "stopList") ELSE Return(p, "client")
  /\ UNCHANGED <<ctr, root, cwd, todo, errs, auxVars, cid, name, calls, seen, prev, warned, wd,
                 scanVars, bridgeVars>>

\* cli.ContainerList and the ambiguity check (shell.go 412-424); with nothing
\* listed the loop is empty and stop returns nil
StopList(p) ==
  /\ pc[p] = "stopList"
  /\ Call(p, "list", 0)
  /\ \E listOk \in BOOLEAN :
       IF ~listOk
       THEN Return(p, "list") /\ UNCHANGED <<seen, todo>>
       ELSE LET m == StopMatching(prof[p], stopArgs[p].all)
                v == StopVerdict(Cardinality(m), stopArgs[p].all)
            IN /\ seen' = [seen EXCEPT ![p] = m]
               /\ IF v # "nil" THEN Return(p, v) /\ UNCHANGED todo
                  ELSE IF m = {} THEN Return(p, "nil") /\ UNCHANGED todo
                  ELSE /\ Goto(p, "stopLoop")
                       /\ \E o \in Orders(m) : todo' = [todo EXCEPT ![p] = o]
  /\ UNCHANGED <<ctr, prof, root, cwd, stopArgs, errs, auxVars, cid, name, prev, warned, wd,
                 scanVars, bridgeVars>>

\* one iteration of the loop (shell.go 425-433): ContainerRemove with Force or
\* ContainerStop on the next container, its error joined into err; after the
\* last one stop returns err (shell.go 434)
StopEach(p) ==
  /\ pc[p] = "stopLoop" /\ todo[p] # <<>>
  /\ LET c == Head(todo[p])
         op == IF stopArgs[p].terminate THEN "remove" ELSE "stop"
     IN \E ok \in BOOLEAN :
          LET e == IF ok /\ Exists(c) THEN "nil" ELSE <<op, c>>
              acc == errorsJoin(errs[p], e)
          IN /\ calls' = [calls EXCEPT ![p] =
                            Append(@, <<op, c, IF e = "nil" THEN "ok" ELSE "failed">>)]
             /\ ctr' = IF e # "nil" THEN ctr
                       ELSE IF op = "remove" THEN [ctr EXCEPT ![c] = Gone]
                       ELSE IF ctr[c].st = "running" THEN Stopped(c) ELSE ctr
             /\ errs' = [errs EXCEPT ![p] = acc]
             /\ todo' = [todo EXCEPT ![p] = Tail(@)]
             /\ IF Tail(todo[p]) = <<>> THEN Return(p, Joined(acc)) ELSE Goto(p, "stopLoop")
  /\ UNCHANGED <<prof, root, cwd, stopArgs, auxVars, cid, name, seen, prev, warned, wd, scanVars,
                 bridgeVars>>

InitStop ==
  /\ ctr \in [Ctrs -> EngineCtrs]
  /\ pc = [p \in Procs |-> "idle"]
  /\ prof = [p \in Procs |-> NoProfile]
  /\ root = [p \in Procs |-> ProfilePath]
  /\ cwd = [p \in Procs |-> <<>>]
  /\ stopArgs = [p \in Procs |-> NoStopArgs]
  /\ todo = [p \in Procs |-> <<>>]
  /\ errs = [p \in Procs |-> <<>>]
  /\ mainSt = [p \in Procs |-> NoMain]
  /\ resizes = [p \in Procs |-> <<>>]
  /\ lockFile = NoLockFile
  /\ file = [p \in Procs |-> 0]
  /\ inspected = [p \in Procs |-> NoInspect]
  /\ needsUpdate = [p \in Procs |-> FALSE]
  /\ restarted = [p \in Procs |-> FALSE]
  /\ rows = [p \in Procs |-> <<>>]
  /\ steps = [p \in Procs |-> <<>>]
  /\ IdleHost
  /\ cid = [p \in Procs |-> 0]
  /\ name = [p \in Procs |-> <<>>]
  /\ err = [p \in Procs |-> "nil"]
  /\ calls = [p \in Procs |-> <<>>]
  /\ seen = [p \in Procs |-> {}]
  /\ prev = [p \in Procs |-> NoPrev]
  /\ warned = [p \in Procs |-> FALSE]
  /\ wd = [p \in Procs |-> <<>>]
  /\ stream = [p \in Procs |-> <<>>]
  /\ eof = [p \in Procs |-> FALSE]
  /\ copier = [p \in Procs |-> "off"]
  /\ echoed = [p \in Procs |-> <<>>]
  /\ termMode = [p \in Procs |-> "cooked"]
  /\ outLoop = [p \in Procs |-> "off"]
  /\ inLoop = [p \in Procs |-> "off"]
  /\ remoteN = [p \in Procs |-> 0]
  /\ delivered = [p \in Procs |-> 0]
  /\ firstDone = [p \in Procs |-> <<>>]

\* one canon stop or canon terminate against an engine holding canon containers
NextStop ==
  \/ \E p \in Sequential : StopBegin(p)
  \/ \E p \in Sequential : StopList(p)
  \/ \E p \in Sequential : StopEach(p)

SpecStop == InitStop /\ [][NextStop]_vars

\* ------------------------------------------------------------- main()
\* checkErr (main.go 36-44): nothing for nil, else one line on stderr; it
\* returns to its caller
checkErr(e) == IF e = "nil" THEN <<>> ELSE << <<"Error: ", e>> >>

\* the commands main dispatches on, and the operations that can fail in them
Commands == {"shell", "config", "update", "list", "terminate", "run"}

OpErrors(cmd) == IF cmd = "config" THEN {"nil"} ELSE {"nil", "failed"}

\* main up to the dispatch: parseConfigs and its error check
MainParse(p) ==
  /\ pc[p] = "idle"
  /\ \E e \in {"nil", "config"} :
       IF e # "nil"
       THEN /\ Goto(p, "exited")
            /\ mainSt' = [mainSt EXCEPT ![p] =
                             [cmd |-> "", printed |-> checkErr(e), status |-> 0]]
       ELSE Goto(p, "dispatch") /\ UNCHANGED mainSt
  /\ UNCHANGED <<ctr, prof, root, cwd, stopArgs, todo, errs, resizes, lockVars, driftVars, restarted, rows, hostVars, steps, cid, name,
                 calls, seen, prev, warned, wd, scanVars, bridgeVars>>

\* the switch on args[0]: the operation runs, checkErr gets its error, main
\* returns and the process ends with the status of a returning main
MainDispatch(p) ==
  /\ pc[p] = "dispatch"
  /\ \E cmd \in Commands : \E e \in OpErrors(cmd) :
       /\ Return(p, e)
       /\ mainSt' = [mainSt EXCEPT ![p] =
                        [cmd |-> cmd, printed |-> checkErr(e), status |-> 0]]
  /\ UNCHANGED <<ctr, prof, root, cwd, stopArgs, todo, errs, resizes, lockVars, driftVars, restarted, rows, hostVars, steps, cid, name,
                 calls, seen, prev, warned, wd, scanVars, bridgeVars>>

NextMain ==
  \/ \E p \in Procs : MainParse(p)
  \/ \E p \in Procs : MainDispatch(p)

SpecMain == Init /\ [][NextMain]_vars

\* ------------------------------------------------- getDefaultProfile()
\* filepath.Abs of an absolute path is filepath.Clean of it: a trailing
\* separator is dropped, the root stays
Abs(path) ==
  IF Len(path) > 1 /\ path[Len(path)] = "/" THEN SubSeq(path, 1, Len(path) - 1) ELSE path

\* filepath.Dir of a clean absolute path: everything before the last separator
Dir(path) ==
  LET i == CHOOSE k \in 1..Len(path) :
             path[k] = "/" /\ \A j \in (k + 1)..Len(path) : path[j] # "/"
  IN IF i = 1 THEN <<"/">> ELSE SubSeq(path, 1, i - 1)

\* one pass of the inner loop (config.go 277-309): the profiles whose path
\* setting, made absolute, is the directory d
Candidates(c, d) ==
  {n \in ProfNames : c.profiles[n].path # <<>> /\ Abs(c.profiles[n].path) = d}

\* the outer loop (config.go 276-314): stop at the first directory with a
\* candidate or at the root, else go up one directory
RECURSIVE NearestCandidates(_, _)
NearestCandidates(c, d) ==
  IF d = <<"/">> \/ Candidates(c, d) # {} THEN Candidates(c, d)
  ELSE NearestCandidates(c, Dir(d))

\* getDefaultProfile (config.go 263-363), its result as [name, err]
getDefaultProfileTakesFirstDefault(c, d) ==
  LET candidates == NearestCandidates(c, Abs(d))
      defs == {n \in candidates : c.profiles[n].def}
  IN IF Cardinality(candidates) = 1
     THEN [name |-> CHOOSE n \in candidates : TRUE, err |-> "nil"]
     ELSE IF Cardinality(candidates) > 1
     THEN IF defs = {}
          THEN [name |-> "", err |-> "none have default"]
          ELSE [name |-> CHOOSE n \in defs : TRUE, err |-> "nil"]
     ELSE [name |-> c.defaults, err |-> "nil"]

getDefaultProfile(c, d) ==
  LET candidates == NearestCandidates(c, Abs(d))
      defs == {n \in candidates : c.profiles[n].def}
  IN IF Cardinality(candidates) = 1
     THEN [name |-> CHOOSE n \in candidates : TRUE, err |-> "nil"]
     ELSE IF Cardinality(candidates) > 1
     THEN IF Cardinality(defs) # 1
          THEN [name |-> "",
                err |-> IF defs = {} THEN "none have default" ELSE "several have default"]
          ELSE [name |-> CHOOSE n \in defs : TRUE, err |-> "nil"]
     ELSE [name |-> c.defaults, err |-> "nil"]

\* main up to the dispatch, with parseConfigs calling getDefaultProfile on the
\* merged configuration (config.go 107-111, main.go 12-17)
ParseConfigs(p) ==
  /\ pc[p] = "idle"
  /\ LET r == getDefaultProfile(cfg, cwd[p])
     IN IF r.err # "nil"
        THEN /\ Goto(p, "exited")
             /\ mainSt' = [mainSt EXCEPT ![p] =
                              [cmd |-> "", printed |-> checkErr(r.err), status |-> 0]]
             /\ UNCHANGED defProfileName
        ELSE /\ Goto(p, "dispatch")
             /\ defProfileName' = [defProfileName EXCEPT ![p] = r.name]
             /\ UNCHANGED mainSt
  /\ UNCHANGED <<ctr, prof, root, cwd, stopArgs, todo, errs, resizes, lockVars, driftVars,
                 restarted, rows, cfg, updVars, steps, cid, name, calls, seen, prev, warned, wd, scanVars,
                 bridgeVars>>

\* the shell command with the profile parseConfigs selected: mergeProfile
\* copies the path setting as written into activeProfile.Path (config.go
\* 119-128, 248-261), and shell() calls getWorkingDir with it (shell.go 70-73)
SelectedGetWorkingDir(p) ==
  /\ pc[p] = "dispatch"
  /\ defProfileName[p] \in ProfNames
  /\ cfg.profiles[defProfileName[p]].path # <<>>
  /\ LET path == cfg.profiles[defProfileName[p]].path
         r == getWorkingDir(path, cwd[p])
     IN /\ root' = [root EXCEPT ![p] = path]
        /\ wd' = [wd EXCEPT ![p] = r.dir]
        /\ Return(p, r.err)
        /\ mainSt' = [mainSt EXCEPT ![p] =
                         [cmd |-> "shell", printed |-> checkErr(r.err), status |-> 0]]
  /\ UNCHANGED <<ctr, prof, cwd, stopArgs, todo, errs, resizes, lockVars, driftVars,
                 restarted, rows, hostVars, steps, cid, name, calls, seen, prev, warned,
                 scanVars, bridgeVars>>

\* the configurations and current directories canon may be started with
Configs ==
  [profiles : [ProfNames -> [path : ConfigPaths, def : BOOLEAN]],
   defaults : {"", ProfName[1]}]

InitSelect ==
  /\ ctr = [c \in Ctrs |-> NoCtr]
  /\ cfg \in Configs
  /\ defProfileName = [p \in Procs |-> ""]
  /\ now = 0
  /\ cache = NoCheckData
  /\ curProfile = [Arch |-> "amd64", UpdateInterval |-> 1, MinimumDate |-> 0]
  /\ IdleUpdate
  /\ \E d \in HostDirs : cwd = [p \in Procs |-> d]
  /\ pc = [p \in Procs |-> "idle"]
  /\ prof = [p \in Procs |-> NoProfile]
  /\ root = [p \in Procs |-> ProfilePath]
  /\ stopArgs = [p \in Procs |-> NoStopArgs]
  /\ todo = [p \in Procs |-> <<>>]
  /\ errs = [p \in Procs |-> <<>>]
  /\ mainSt = [p \in Procs |-> NoMain]
  /\ resizes = [p \in Procs |-> <<>>]
  /\ lockFile = NoLockFile
  /\ file = [p \in Procs |-> 0]
  /\ inspected = [p \in Procs |-> NoInspect]
  /\ needsUpdate = [p \in Procs |-> FALSE]
  /\ restarted = [p \in Procs |-> FALSE]
  /\ rows = [p \in Procs |-> <<>>]
  /\ steps = [p \in Procs |-> <<>>]
  /\ cid = [p \in Procs |-> 0]
  /\ name = [p \in Procs |-> <<>>]
  /\ err = [p \in Procs |-> "nil"]
  /\ calls = [p \in Procs |-> <<>>]
  /\ seen = [p \in Procs |-> {}]
  /\ prev = [p \in Procs |-> NoPrev]
  /\ warned = [p \in Procs |-> FALSE]
  /\ wd = [p \in Procs |-> <<>>]
  /\ stream = [p \in Procs |-> <<>>]
  /\ eof = [p \in Procs |-> FALSE]
  /\ copier = [p \in Procs |-> "off"]
  /\ echoed = [p \in Procs |-> <<>>]
  /\ termMode = [p \in Procs |-> "cooked"]
  /\ outLoop = [p \in Procs |-> "off"]
  /\ inLoop = [p \in Procs |-> "off"]
  /\ remoteN = [p \in Procs |-> 0]
  /\ delivered = [p \in Procs |-> 0]
  /\ firstDone = [p \in Procs |-> <<>>]

NextSelect ==
  \/ \E p \in Sequential : ParseConfigs(p)
  \/ \E p \in Sequential : MainDispatch(p)
  \/ \E p \in Sequential : SelectedGetWorkingDir(p)

SpecSelect == InitSelect /\ [][NextSelect]_vars

\* ------------------------------------------------- getLock() and dropLock()
LockRest ==
  <<ctr, prof, root, cwd, stopArgs, todo, errs, mainSt, resizes, driftVars, restarted, rows, hostVars, steps, cid, name,
    calls, seen,
    prev, warned, wd, scanVars, bridgeVars>>

\* os.OpenFile(lockFile, O_WRONLY|O_CREATE): opens the file the path names,
\* creating one when the path names none (update.go 99-102)
GetLockOpen(p) ==
  /\ pc[p] = "idle"
  /\ lockFile.path # 0 \/ lockFile.made < MaxLockFiles
  /\ \E ok \in BOOLEAN :
       IF ok
       THEN LET i == IF lockFile.path # 0 THEN lockFile.path ELSE lockFile.made + 1 IN
              /\ lockFile' = [lockFile EXCEPT !.path = i,
                                              !.made = IF i > @ THEN i ELSE @]
              /\ file' = [file EXCEPT ![p] = i]
              /\ Goto(p, "writePid")
       ELSE Return(p, "open") /\ UNCHANGED lockVars
  /\ UNCHANGED LockRest

\* fmt.Fprintf(file, "%d", os.Getpid()) (update.go 103-106)
GetLockWrite(p) ==
  /\ pc[p] = "writePid"
  /\ \E ok \in BOOLEAN :
       IF ok
       THEN /\ lockFile' = [lockFile EXCEPT !.pid[file[p]] = p]
            /\ Goto(p, "flock")
            /\ UNCHANGED file
       ELSE /\ Return(p, "write")
            /\ file' = [file EXCEPT ![p] = 0]
            /\ UNCHANGED lockFile
  /\ UNCHANGED LockRest

\* syscall.Flock(fd, LOCK_EX|LOCK_NB) on the file that was opened; EAGAIN is
\* "another canon process is holding" and the caller returns (update.go 108-112)
GetLockFlock(p) ==
  /\ pc[p] = "flock"
  /\ IF lockFile.holder[file[p]] = 0
     THEN /\ lockFile' = [lockFile EXCEPT !.holder[file[p]] = p]
          /\ Goto(p, "locked")
          /\ UNCHANGED file
     ELSE /\ Return(p, "holding")
          /\ file' = [file EXCEPT ![p] = 0]
          /\ UNCHANGED lockFile
  /\ UNCHANGED LockRest

\* a process between a successful getLock and its dropLock
Locked(p) == pc[p] = "locked"

\* dropLock: syscall.Flock(fd, LOCK_UN) (update.go 116-118)
DropLockUnlock(p) ==
  /\ Locked(p)
  /\ lockFile' = [lockFile EXCEPT !.holder[file[p]] = 0]
  /\ Goto(p, "close")
  /\ UNCHANGED <<file, LockRest>>

\* dropLock: file.Close() (update.go 119-121)
DropLockClose(p) ==
  /\ pc[p] = "close"
  /\ file' = [file EXCEPT ![p] = 0]
  /\ Goto(p, "remove")
  /\ UNCHANGED <<lockFile, LockRest>>

\* dropLock: os.Remove(file.Name()) unlinks whatever file the path names now
\* (update.go 122); checkUpdate goes on to update(), which takes the lock again
DropLockRemove(p) ==
  /\ pc[p] = "remove"
  /\ IF lockFile.path # 0
     THEN lockFile' = [lockFile EXCEPT !.path = 0] /\ Goto(p, "idle")
     ELSE Return(p, "remove") /\ UNCHANGED lockFile
  /\ UNCHANGED <<file, LockRest>>

NextLock ==
  \/ \E p \in Procs : GetLockOpen(p)
  \/ \E p \in Procs : GetLockWrite(p)
  \/ \E p \in Procs : GetLockFlock(p)
  \/ \E p \in Procs : DropLockUnlock(p)
  \/ \E p \in Procs : DropLockClose(p)
  \/ \E p \in Procs : DropLockRemove(p)

SpecLock == Init /\ [][NextLock]_vars

\* ------------------------------------------------ checkUpdate() and update()
UpdateRest ==
  <<ctr, prof, root, cwd, stopArgs, todo, errs, mainSt, resizes, driftVars, restarted, rows,
    cfgVars, steps, cid, name, calls, seen, prev, warned, wd, scanVars, bridgeVars>>

\* the image candidates of the profile (update.go 189-209): a dual-arch
\* profile names one image per platform
ImageCandidates(profile) == ImageDefs

\* checkImageDate (update.go 188-218) at time t
checkImageDateNeverExpires(profile, data, force, t) ==
  {i \in ImageCandidates(profile) :
     \/ data[i] = NoRecord
     \/ force
     \/ profile.MinimumDate > data[i]}

checkImageDate(profile, data, force, t) ==
  {i \in ImageCandidates(profile) :
     \/ data[i] = NoRecord
     \/ force
     \/ t > data[i] + profile.UpdateInterval
     \/ profile.MinimumDate > data[i]}

\* the images checkUpdate queues (update.go 142-147, with no other profile
\* configured): those checkImageDate returns, all of them with all set, else
\* the one of the profile's architecture
Queued(profile, data, all, force, t) ==
  {i \in checkImageDate(profile, data, force, t) :
     all \/ i.Platform = <<"linux/", profile.Arch>>}

\* the file os.OpenFile(lockFile, O_WRONLY|O_CREATE) opens: the one the path
\* names, else a new one
LockTarget ==
  IF lockFile.path # 0 THEN lockFile.path
  ELSE CHOOSE i \in LockFiles : lockFile.holder[i] = 0

\* getLock (update.go 88-113) as one step: open or create the file, write the
\* pid, flock(LOCK_EX|LOCK_NB); a lock held through any other descriptor, of
\* this process or another, makes the flock fail with EAGAIN at once
getLock(p, next) ==
  \E ok \in BOOLEAN :
    IF ~ok
    THEN Return(p, "open") /\ UNCHANGED <<lockVars, blockedBy>>
    ELSE LET i == LockTarget
             opened == [lockFile EXCEPT !.path = i,
                                        !.made = IF i > @ THEN i ELSE @,
                                        !.pid[i] = p]
         IN IF lockFile.holder[i] = 0
            THEN /\ lockFile' = [opened EXCEPT !.holder[i] = p]
                 /\ file' = [file EXCEPT ![p] = i]
                 /\ Goto(p, next)
                 /\ UNCHANGED blockedBy
            ELSE /\ lockFile' = opened
                 /\ blockedBy' = [blockedBy EXCEPT ![p] = lockFile.holder[i]]
                 /\ Return(p, "holding")
                 /\ UNCHANGED file

\* dropLock (update.go 115-123) as one step: unlock, close, remove the path
dropLock(p) ==
  /\ lockFile' = [lockFile EXCEPT !.holder[file[p]] = 0, !.path = 0]
  /\ file' = [file EXCEPT ![p] = 0]

\* canon starts: shell() runs the startup check (shell.go 42), canon update
\* runs the forced one (main.go, case "update")
CheckUpdateBegin(p) ==
  /\ pc[p] = "idle"
  /\ \E a \in {[all |-> FALSE, force |-> FALSE, from |-> "shell"],
                [all |-> FALSE, force |-> TRUE, from |-> "update"],
                [all |-> TRUE, force |-> TRUE, from |-> "update"]} :
       args' = [args EXCEPT ![p] = a]
  /\ Goto(p, "cuLock")
  /\ checkData' = [checkData EXCEPT ![p] = NoCheckData]
  /\ images' = [images EXCEPT ![p] = {}]
  /\ pulled' = [pulled EXCEPT ![p] = <<>>]
  /\ written' = [written EXCEPT ![p] = <<>>]
  /\ blockedBy' = [blockedBy EXCEPT ![p] = 0]
  /\ checkedAt' = [checkedAt EXCEPT ![p] = 0]
  /\ UNCHANGED <<now, cache, curProfile, leaked, lockVars, UpdateRest>>

\* checkUpdate: getLock (update.go 130-133)
CheckUpdateGetLock(p) ==
  /\ pc[p] = "cuLock"
  /\ getLock(p, "cuRead")
  /\ UNCHANGED <<now, cache, curProfile, args, checkData, images, pulled, written, leaked,
                 checkedAt, UpdateRest>>

\* checkUpdate: readCheckData (update.go 134-137); on its error checkUpdate
\* returns with the lock still held and its descriptor open
CheckUpdateRead(p) ==
  /\ pc[p] = "cuRead"
  /\ \E ok \in BOOLEAN :
       IF ok
       THEN /\ checkData' = [checkData EXCEPT ![p] = cache]
            /\ Goto(p, "cuDrop")
            /\ UNCHANGED <<leaked, file>>
       ELSE /\ Return(p, "read")
            /\ leaked' = [leaked EXCEPT ![p] = file[p]]
            /\ file' = [file EXCEPT ![p] = 0]
            /\ UNCHANGED checkData
  /\ UNCHANGED <<now, cache, curProfile, args, images, pulled, written, blockedBy, checkedAt,
                 lockFile, UpdateRest>>

\* checkUpdate: dropLock, then the images to update are collected and handed
\* to update (update.go 138-185)
CheckUpdateQueue(p) ==
  /\ pc[p] = "cuDrop"
  /\ dropLock(p)
  /\ images' = [images EXCEPT ![p] =
                  Queued(curProfile, checkData[p], args[p].all, args[p].force, now)]
  /\ checkedAt' = [checkedAt EXCEPT ![p] = now]
  /\ Goto(p, "upLock")
  /\ UNCHANGED <<now, cache, curProfile, args, checkData, pulled, written, leaked, blockedBy,
                 UpdateRest>>

\* shell() goes on whatever checkUpdate returned (checkErr only prints); when
\* ContainerCreate then fails, startContainer calls update for the image of
\* the profile (shell.go 353-355)
StartContainerUpdate(p) ==
  /\ pc[p] = "done"
  /\ args[p].from = "shell"
  /\ args' = [args EXCEPT ![p].from = "startContainer"]
  /\ images' = [images EXCEPT ![p] =
                  {i \in ImageDefs : i.Platform = <<"linux/", curProfile.Arch>>}]
  /\ pulled' = [pulled EXCEPT ![p] = <<>>]
  /\ written' = [written EXCEPT ![p] = <<>>]
  /\ blockedBy' = [blockedBy EXCEPT ![p] = 0]
  /\ Goto(p, "upLock")
  /\ UNCHANGED <<now, cache, curProfile, checkData, leaked, checkedAt, lockVars, UpdateRest>>

\* update: getLock (update.go 50-53)
UpdateGetLock(p) ==
  /\ pc[p] = "upLock"
  /\ getLock(p, "upRead")
  /\ UNCHANGED <<now, cache, curProfile, args, checkData, images, pulled, written, leaked,
                 checkedAt, UpdateRest>>

\* update: readCheckData and the engine client (update.go 58-67); on an error
\* the deferred dropLock runs
UpdateRead(p) ==
  /\ pc[p] = "upRead"
  /\ \E e \in {"nil", "read", "client"} :
       IF e = "nil"
       THEN /\ checkData' = [checkData EXCEPT ![p] = cache]
            /\ Goto(p, "upPull")
            /\ UNCHANGED lockVars
       ELSE /\ Return(p, e)
            /\ dropLock(p)
            /\ UNCHANGED checkData
  /\ UNCHANGED <<now, cache, curProfile, args, images, pulled, written, leaked, blockedBy,
                 checkedAt, UpdateRest>>

\* what a round of the loop writes to the cache file: nothing, the one write
\* is after the loop (update.go 69-85)
WrittenInLoopEachPull(data, ok) == IF ok THEN <<data>> ELSE <<>>

WrittenInLoop(data, ok) == <<>>

\* update: one round of the loop (update.go 69-84): pull, show the progress,
\* record time.Now() for the image; an error returns through the deferred
\* dropLock
UpdatePull(p) ==
  /\ pc[p] = "upPull"
  /\ \E i \in images[p], ok \in BOOLEAN :
       /\ pulled' = [pulled EXCEPT ![p] = Append(@, <<i, ok>>)]
       /\ IF ok
          THEN /\ checkData' = [checkData EXCEPT ![p][i] = now]
               /\ images' = [images EXCEPT ![p] = @ \ {i}]
               /\ Goto(p, "upPull")
               /\ UNCHANGED lockVars
          ELSE /\ Return(p, "pull")
               /\ dropLock(p)
               /\ UNCHANGED <<checkData, images>>
       /\ LET w == WrittenInLoop(checkData'[p], ok) IN
            /\ written' = [written EXCEPT ![p] = @ \o w]
            /\ cache' = IF w = <<>> THEN cache ELSE w[Len(w)]
  /\ UNCHANGED <<now, curProfile, args, leaked, blockedBy, checkedAt, UpdateRest>>

\* update: checkData.write() after the loop, then the deferred dropLock
UpdateWrite(p) ==
  /\ pc[p] = "upPull"
  /\ images[p] = {}
  /\ \E ok \in BOOLEAN :
       IF ok
       THEN /\ cache' = checkData[p]
            /\ written' = [written EXCEPT ![p] = Append(@, checkData[p])]
            /\ Return(p, "nil")
       ELSE /\ Return(p, "write")
            /\ UNCHANGED <<cache, written>>
  /\ dropLock(p)
  /\ UNCHANGED <<now, curProfile, args, checkData, images, pulled, leaked, blockedBy,
                 checkedAt, UpdateRest>>

\* the runtime closes a file no variable refers to when its finalizer runs
\* (os.File), which drops the flock the descriptor held
Finalize(p) ==
  /\ leaked[p] # 0
  /\ lockFile' = [lockFile EXCEPT !.holder[leaked[p]] = 0]
  /\ leaked' = [leaked EXCEPT ![p] = 0]
  /\ UNCHANGED <<pc, err, file, now, cache, curProfile, args, checkData, images, pulled,
                 written, blockedBy, checkedAt, UpdateRest>>

\* the process ends: the kernel closes its descriptors
ProcessExit(p) ==
  /\ pc[p] = "done"
  /\ args[p].from # ""
  /\ Goto(p, "idle")
  /\ lockFile' = IF leaked[p] # 0 THEN [lockFile EXCEPT !.holder[leaked[p]] = 0]
                 ELSE lockFile
  /\ leaked' = [leaked EXCEPT ![p] = 0]
  /\ args' = [args EXCEPT ![p] = NoArgs]
  /\ UNCHANGED <<file, now, cache, curProfile, checkData, images, pulled, written, blockedBy,
                 checkedAt, UpdateRest>>

\* time passes
Tick ==
  /\ now < MaxTime
  /\ now' = now + 1
  /\ UNCHANGED <<pc, err, lockVars, cache, curProfile, args, checkData, images, pulled,
                 written, leaked, blockedBy, checkedAt, UpdateRest>>

\* two canon processes of one user, each running its update steps
NextUpdate ==
  \/ \E p \in Procs : CheckUpdateBegin(p)
  \/ \E p \in Procs : CheckUpdateGetLock(p)
  \/ \E p \in Procs : CheckUpdateRead(p)
  \/ \E p \in Procs : CheckUpdateQueue(p)
  \/ \E p \in Procs : StartContainerUpdate(p)
  \/ \E p \in Procs : UpdateGetLock(p)
  \/ \E p \in Procs : UpdateRead(p)
  \/ \E p \in Procs : UpdatePull(p)
  \/ \E p \in Procs : UpdateWrite(p)
  \/ \E p \in Procs : Finalize(p)
  \/ \E p \in Procs : ProcessExit(p)

SpecUpdate == Init /\ [][NextUpdate]_vars

\* checkUpdate taken alone: one process, a cache holding any records up to the
\* present, any update settings
InitCheck ==
  /\ ctr = [c \in Ctrs |-> NoCtr]
  /\ now \in 0..MaxTime
  /\ cache \in [ImageDefs -> {NoRecord} \cup 0..now]
  /\ curProfile \in [Arch : Archs, UpdateInterval : 0..MaxInterval, MinimumDate : 0..MaxTime]
  /\ cfg = NoConfig
  /\ defProfileName = [p \in Procs |-> ""]
  /\ IdleUpdate
  /\ CheckRest

NextCheck ==
  \/ \E p \in Sequential : CheckUpdateBegin(p)
  \/ \E p \in Sequential : CheckUpdateGetLock(p)
  \/ \E p \in Sequential : CheckUpdateRead(p)
  \/ \E p \in Sequential : CheckUpdateQueue(p)
  \/ Tick

SpecCheck == InitCheck /\ [][NextCheck]_vars

\* checkContainerImageVersion taken alone: the engine holds its answers to the
\* two inspect calls and a process calls the function once
InitDrift ==
  /\ ctr = [c \in Ctrs |-> NoCtr]
  /\ pc = [p \in Procs |-> "idle"]
  /\ prof = [p \in Procs |-> NoProfile]
  /\ root = [p \in Procs |-> ProfilePath]
  /\ cwd = [p \in Procs |-> <<>>]
  /\ stopArgs = [p \in Procs |-> NoStopArgs]
  /\ todo = [p \in Procs |-> <<>>]
  /\ errs = [p \in Procs |-> <<>>]
  /\ mainSt = [p \in Procs |-> NoMain]
  /\ resizes = [p \in Procs |-> <<>>]
  /\ lockFile = NoLockFile
  /\ file = [p \in Procs |-> 0]
  /\ inspected \in [Procs -> [ctrOk : BOOLEAN, imgOk : BOOLEAN,
                              containerImageID : ImageIDs, imageID : ImageIDs]]
  /\ needsUpdate = [p \in Procs |-> FALSE]
  /\ restarted = [p \in Procs |-> FALSE]
  /\ rows = [p \in Procs |-> <<>>]
  /\ steps = [p \in Procs |-> <<>>]
  /\ IdleHost
  /\ cid = [p \in Procs |-> 0]
  /\ name = [p \in Procs |-> <<>>]
  /\ err = [p \in Procs |-> "nil"]
  /\ calls = [p \in Procs |-> <<>>]
  /\ seen = [p \in Procs |-> {}]
  /\ prev = [p \in Procs |-> NoPrev]
  /\ warned = [p \in Procs |-> FALSE]
  /\ wd = [p \in Procs |-> <<>>]
  /\ stream = [p \in Procs |-> <<>>]
  /\ eof = [p \in Procs |-> FALSE]
  /\ copier = [p \in Procs |-> "off"]
  /\ echoed = [p \in Procs |-> <<>>]
  /\ termMode = [p \in Procs |-> "cooked"]
  /\ outLoop = [p \in Procs |-> "off"]
  /\ inLoop = [p \in Procs |-> "off"]
  /\ remoteN = [p \in Procs |-> 0]
  /\ delivered = [p \in Procs |-> 0]
  /\ firstDone = [p \in Procs |-> <<>>]

CallCheckContainerImageVersion(p) ==
  /\ pc[p] = "idle"
  /\ LET i == inspected[p]
         r == checkContainerImageVersion(i.ctrOk, i.imgOk, i.containerImageID, i.imageID)
     IN /\ Return(p, r.err)
        /\ needsUpdate' = [needsUpdate EXCEPT ![p] = r.needsUpdate]
  /\ UNCHANGED <<ctr, prof, root, cwd, stopArgs, todo, errs, mainSt, resizes, lockVars,
                 inspected, restarted, rows, hostVars, steps, cid, name, calls, seen, prev, warned, wd, scanVars,
                 bridgeVars>>

NextDrift == \E p \in Procs : CallCheckContainerImageVersion(p)

SpecDrift == InitDrift /\ [][NextDrift]_vars

\* ---------------------------------------------------------------- list()
\* the State column of one row (shell.go 457-465): label is the value of the
\* com.viam.canon.type label, "" when the container has none
DisplayStateAnyRunning(state, label) ==
  IF state = "running" THEN "oneshot"
  ELSE IF state = "exited" THEN "stopped"
  ELSE state

DisplayState(state, label) ==
  IF state = "running" THEN (IF label = "one-shot" THEN "oneshot" ELSE state)
  ELSE IF state = "exited" THEN "stopped"
  ELSE state

\* the containers an engine may hold when canon list is run
ListedCtrs ==
  {NoCtr} \cup
  { [NoCtr EXCEPT !.st = st, !.type = label, !.profile = <<"a", "/", "amd64">>] :
      st \in {"created", "running", "paused", "exited"},
      label \in {"", "one-shot", "persistent"} }

\* the label filter of list (shell.go 442-444), with ListOptions{All: true}
ListMatching == {c \in Ctrs : ctr[c].st \notin {"none", "removed"} /\ ctr[c].profile # <<>>}

\* list() (shell.go 437-469)
List(p) ==
  /\ pc[p] = "idle"
  /\ \E clientOk \in BOOLEAN, listOk \in BOOLEAN, o \in Orders(ListMatching) :
       IF ~clientOk THEN Return(p, "client") /\ UNCHANGED <<calls, rows>>
       ELSE /\ Call(p, "list", 0)
            /\ IF ~listOk THEN Return(p, "list") /\ UNCHANGED rows
               ELSE /\ Return(p, "nil")
                    /\ rows' = [rows EXCEPT ![p] =
                          [i \in 1..Len(o) |->
                             <<DisplayState(ctr[o[i]].st, ctr[o[i]].type),
                               ctr[o[i]].profile, o[i]>>]]
  /\ UNCHANGED <<ctr, prof, root, cwd, stopArgs, todo, errs, mainSt, resizes, lockVars,
                 driftVars, restarted, hostVars, steps, cid, name, seen, prev, warned, wd, scanVars,
                 bridgeVars>>

InitList ==
  /\ ctr \in [Ctrs -> ListedCtrs]
  /\ IdleProcs

NextList == \E p \in Procs : List(p)

SpecList == InitList /\ [][NextList]_vars

\* getWorkingDir taken alone: a process with its profile path and its current
\* directory calls it once
InitWd ==
  /\ ctr = [c \in Ctrs |-> NoCtr]
  /\ pc = [p \in Procs |-> "idle"]
  /\ prof = [p \in Procs |-> NoProfile]
  /\ root \in [Procs -> Roots]
  /\ cwd \in [Procs -> HostDirs]
  /\ stopArgs = [p \in Procs |-> NoStopArgs]
  /\ todo = [p \in Procs |-> <<>>]
  /\ errs = [p \in Procs |-> <<>>]
  /\ mainSt = [p \in Procs |-> NoMain]
  /\ resizes = [p \in Procs |-> <<>>]
  /\ lockFile = NoLockFile
  /\ file = [p \in Procs |-> 0]
  /\ inspected = [p \in Procs |-> NoInspect]
  /\ needsUpdate = [p \in Procs |-> FALSE]
  /\ restarted = [p \in Procs |-> FALSE]
  /\ rows = [p \in Procs |-> <<>>]
  /\ steps = [p \in Procs |-> <<>>]
  /\ IdleHost
  /\ cid = [p \in Procs |-> 0]
  /\ name = [p \in Procs |-> <<>>]
  /\ err = [p \in Procs |-> "nil"]
  /\ calls = [p \in Procs |-> <<>>]
  /\ seen = [p \in Procs |-> {}]
  /\ prev = [p \in Procs |-> NoPrev]
  /\ warned = [p \in Procs |-> FALSE]
  /\ wd = [p \in Procs |-> <<>>]
  /\ stream = [p \in Procs |-> <<>>]
  /\ eof = [p \in Procs |-> FALSE]
  /\ copier = [p \in Procs |-> "off"]
  /\ echoed = [p \in Procs |-> <<>>]
  /\ termMode = [p \in Procs |-> "cooked"]
  /\ outLoop = [p \in Procs |-> "off"]
  /\ inLoop = [p \in Procs |-> "off"]
  /\ remoteN = [p \in Procs |-> 0]
  /\ delivered = [p \in Procs |-> 0]
  /\ firstDone = [p \in Procs |-> <<>>]

CallGetWorkingDir(p) ==
  /\ pc[p] = "idle"
  /\ LET r == getWorkingDir(root[p], cwd[p]) IN
       /\ Return(p, r.err)
       /\ wd' = [wd EXCEPT ![p] = r.dir]
  /\ UNCHANGED <<ctr, prof, envVars, cid, name, calls, seen, prev, warned, scanVars,
                 bridgeVars>>

NextWd == \E p \in Procs : CallGetWorkingDir(p)

SpecWd == InitWd /\ [][NextWd]_vars

\* ------------------------------------------------------------ the claims
Fresh(p) == cid[p] # 0 /\ cid[p] \in Issued(p, "create")

\* C1: two sequential invocations of a persistent profile with identical
\* settings run their command in the same container: the second one lists
\* exactly that container, creates its exec session in it and issues no
\* container-create call.
C1_PersistentReuse ==
  \A p \in Procs :
    (prof[p].persistent /\ prev[p].prof = prof[p] /\ pc[p] \notin {"getPersistent"}
       /\ ~(pc[p] = "done" /\ err[p] \in {"client", "list"}))
      => /\ seen[p] = {prev[p].exec}
         /\ Issued(p, "execCreate") \subseteq {prev[p].exec}
         /\ ~HasCall(p, "create")

C1_Witness ==
  \E p \in Procs :
    /\ prof[p].persistent /\ prev[p].prof = prof[p]
    /\ pc[p] = "done" /\ err[p] = "nil"
    /\ Issued(p, "execCreate") = {prev[p].exec}

\* C2: a persistent invocation that finds exactly one matching container whose
\* profile-data label differs from the serialised current profile fails with
\* the drift error, having issued nothing but the list call.
Drifted(p) ==
  /\ prof[p].persistent
  /\ Cardinality(seen[p]) = 1
  /\ \E c \in seen[p] : ctr[c].hasData /\ ctr[c].data # ProfileYaml(prof[p])

C2_DriftIsFatal ==
  \A p \in Procs :
    Drifted(p) => /\ pc[p] = "done" /\ err[p] = "drift"
                  /\ calls[p] = << <<"list", 0>> >>

C2_Witness == \E p \in Procs : Drifted(p) /\ err[p] = "drift"

Listed(p) == HasCall(p, "list") /\ ~(pc[p] = "done" /\ err[p] = "list")

C4_ZeroCreatesManyFails ==
  \A p \in Procs :
    /\ (prof[p].persistent /\ Listed(p) /\ seen[p] = {})
         => /\ pc[p] \notin {"persistStart", "checkImage"}
            /\ err[p] \notin {"ambiguous", "nodata", "drift"}
            /\ (pc[p] = "done" => HasCall(p, "create") \/ err[p] = "pre")
            /\ (cid[p] # 0 => Fresh(p))
            /\ Issued(p, "start") \subseteq Issued(p, "create") \ {0}
    /\ Cardinality(seen[p]) >= 2
         => /\ pc[p] = "done" /\ err[p] = "ambiguous"
            /\ calls[p] = << <<"list", 0>> >>

C4_Witness ==
  \E p, q \in Procs :
    /\ Cardinality(seen[p]) >= 2 /\ err[p] = "ambiguous"
    /\ prof[q].persistent /\ Listed(q) /\ seen[q] = {} /\ Fresh(q)

\* C5 (as claimed): no two persistent containers carry the same profile label.
C5_AtMostOnePersistent ==
  \A c, d \in Ctrs :
    (c # d /\ Exists(c) /\ Exists(d)
       /\ ctr[c].type = "persistent" /\ ctr[d].type = "persistent")
      => ctr[c].profile # ctr[d].profile

\* C6 (as claimed): when the attach stream has ended and every line of it was
\* scanned without the marker, startContainer returns an error.
C6_ClosedWithoutSignalFails ==
  \A p \in Sequential :
    (pc[p] = "scan" /\ eof[p] /\ stream[p] = <<>>)
      ~> (pc[p] = "done" /\ err[p] # "nil")

\* C7: an exec session is created in a container made by this invocation only
\* after the scan printed a line carrying the marker, as its last line.
C7_ReadyBeforeExec ==
  \A p \in Procs :
    (Fresh(p) /\ HasCall(p, "execCreate"))
      => /\ echoed[p] # <<>>
         /\ HasMarker(echoed[p][Len(echoed[p])])

C7_Witness ==
  \E p \in Procs :
    /\ Fresh(p) /\ HasCall(p, "execCreate")
    /\ Len(echoed[p]) = 2 /\ ~HasMarker(echoed[p][1])

\* C8: once the scan is over, the lines it printed end with the first line that
\* carries the marker: no earlier printed line carries it, nothing after it
\* was printed, what follows it in the stream is still unread, and
\* startContainer did not fail.
ScanOver(p) == echoed[p] # <<>> /\ pc[p] # "scan"

C8_ScanStopsAtFirstMarker ==
  \A p \in Procs :
    ScanOver(p)
      => /\ HasMarker(echoed[p][Len(echoed[p])])
         /\ \A i \in 1..(Len(echoed[p]) - 1) : ~HasMarker(echoed[p][i])
         /\ ~(pc[p] = "done" /\ err[p] \in {"pre", "create", "pull", "attach", "start"})

C8_Witness ==
  \E p \in Procs :
    /\ pc[p] = "scanned" /\ stream[p] # <<>>
    /\ HasMarker(echoed[p][Len(echoed[p])])

\* C9: the bridge has returned
BridgeOver(p) == firstDone[p] # <<>> /\ ~InBridge(p)

C11_OutboundFirst ==
  \A p \in Procs :
    (firstDone[p] # <<>> /\ firstDone[p][1] = "out")
      => /\ pc[p] \in {"stop", "wait", "done"}
         /\ inLoop[p] # "done"
         /\ outLoop[p] = "done"
         /\ firstDone[p][2] = "err" => pc[p] = "done" /\ err[p] = "outCopy"
         /\ firstDone[p][2] = "nil"
              => /\ err[p] \notin {"outCopy", "inCopy", "cancel"}
                 /\ (prof[p].persistent => pc[p] = "done" /\ err[p] = "nil")

C11_Witness ==
  \E p \in Procs :
    /\ firstDone[p] = <<"out", "err">> /\ inLoop[p] = "copy"
    /\ pc[p] = "done" /\ err[p] = "outCopy"

\* C12: whenever shell has returned, on whatever path, the host terminal is in
\* the mode it had before raw mode was engaged; it is raw only between
\* SetRawTerminal and the return.
C12_TerminalRestored ==
  \A p \in Procs :
    /\ pc[p] = "done" => termMode[p] = "cooked"
    /\ termMode[p] = "raw" <=> pc[p] \in {"execStart", "select1", "select2", "stop", "wait"}

C12_Witness ==
  \E p \in Procs :
    /\ pc[p] = "done" /\ err[p] = "wait" /\ HasCall(p, "execStart")
    /\ termMode[p] = "cooked"

\* C13: when the bridged session ended without a copy error and shell has
\* returned, a persistent invocation issued no stop and no wait call and
\* returned nil; a one-shot invocation issued stop on its
\* container and, when the stop succeeded, its last call is the wait for that
\* container's removal.
SessionEndedNormally(p) ==
  /\ BridgeOver(p) /\ pc[p] = "done"
  /\ err[p] \notin {"outCopy", "inCopy", "cancel"}

C13_TeardownPolicy ==
  \A p \in Procs :
    SessionEndedNormally(p)
      => IF prof[p].persistent
         THEN /\ ~HasCall(p, "stop") /\ ~HasCall(p, "wait")
              /\ err[p] = "nil"
         ELSE /\ Issued(p, "stop") = {cid[p]}
              /\ err[p] \notin {"stop", "No such container"}
                   => /\ calls[p][Len(calls[p])] = <<"wait", cid[p]>>
                      /\ calls[p][Len(calls[p]) - 1] = <<"stop", cid[p]>>
              /\ err[p] = "nil" => ~Exists(cid[p])

C13_Witness ==
  \E p \in Procs :
    /\ SessionEndedNormally(p) /\ ~prof[p].persistent /\ err[p] = "nil"
    /\ calls[p][Len(calls[p])] = <<"wait", cid[p]>>
    /\ prev[p].prof.persistent /\ prev[p].exec # 0 /\ ctr[prev[p].exec].st = "running"

\* C14 (as claimed): a one-shot invocation that created a container and then
\* returned an error has issued a stop call for that container.
C14_OneShotStoppedOnFailure ==
  \A p \in Procs :
    (~prof[p].persistent /\ pc[p] = "done" /\ err[p] # "nil"
       /\ Issued(p, "create") \ {0} # {})
      => Issued(p, "create") \ {0} \subseteq Issued(p, "stop")

\* the names of a path, in order: what lies between its separators
RECURSIVE Components(_)
Components(path) ==
  IF path = <<>> THEN <<>>
  ELSE IF Head(path) = "/" THEN Components(Tail(path))
  ELSE LET n == IF \E i \in 1..Len(path) : path[i] = "/"
                 THEN (CHOOSE i \in 1..Len(path) :
                         path[i] = "/" /\ \A j \in 1..(i - 1) : path[j] # "/") - 1
                 ELSE Len(path)
       IN <<SubSeq(path, 1, n)>> \o Components(SubSeq(path, n + 1, Len(path)))

\* d is r or a descendant of r, name by name
Within(r, d) ==
  /\ Len(Components(r)) <= Len(Components(d))
  /\ SubSeq(Components(d), 1, Len(Components(r))) = Components(r)

RECURSIVE UnderMount(_)
UnderMount(names) ==
  IF names = <<>> THEN canonMountPoint
  ELSE UnderMount(SubSeq(names, 1, Len(names) - 1)) \o <<"/">> \o names[Len(names)]

\* the mount point joined with d relative to r
Mapped(r, d) ==
  UnderMount(SubSeq(Components(d), Len(Components(r)) + 1, Len(Components(d))))

\* C15 (as claimed): an invocation whose current directory is outside the
\* profile's path issues no container-create call.
C15_OutsideRootCreatesNothing ==
  \A p \in Procs :
    (prof[p] # NoProfile /\ ~Within(root[p], cwd[p])) => ~HasCall(p, "create")

C17_OutsideRootFails ==
  \A p \in Procs :
    (pc[p] = "done" /\ ~Within(root[p], cwd[p])) => err[p] = "wd"

\* C18: an invocation issues at most two create calls and one pull. A first
\* create that fails for a missing or mismatched image is followed by exactly
\* the pull and then the second create; a failed pull is fatal; a create that
\* fails for any other reason, or a second create that fails, is fatal and the
\* last call of startContainer; a successful create is never repeated.
CallsOf(p, op) == {i \in 1..Len(calls[p]) : calls[p][i][1] = op}

C18_CreateRetry ==
  \A p \in Procs :
    LET cs == calls[p]
        last(i) == i = Len(cs)
        fatal(i, e) == last(i) /\ pc[p] = "done" /\ err[p] = e
    IN /\ Cardinality(CallsOf(p, "create")) <= 2
       /\ Cardinality(CallsOf(p, "pull")) <= 1
       /\ \A i \in CallsOf(p, "create") :
            LET first == \A j \in CallsOf(p, "create") : i <= j IN
              /\ (cs[i][3] = "noimage" /\ first)
                   => IF last(i) THEN pc[p] = "pull" ELSE cs[i + 1] = <<"pull", 0>>
              /\ (cs[i][3] # "ok" /\ ~(cs[i][3] = "noimage" /\ first))
                   => fatal(i, "create")
              /\ cs[i][3] = "ok"
                   => /\ \A j \in CallsOf(p, "create") \cup CallsOf(p, "pull") : j <= i
                      /\ ~(pc[p] = "done" /\ err[p] \in {"create", "pull"})
              /\ ~first => cs[i - 1] = <<"pull", 0>>
       /\ \A i \in CallsOf(p, "pull") :
            /\ i > 1 /\ cs[i - 1][1] = "create" /\ cs[i - 1][3] = "noimage"
            /\ IF last(i) THEN pc[p] = "create2" \/ fatal(i, "pull")
               ELSE cs[i + 1][1] = "create"

C18_Witness ==
  \E p \in Procs :
    /\ Cardinality(CallsOf(p, "create")) = 2
    /\ \E i \in CallsOf(p, "create") : calls[p][i][3] = "ok"
    /\ HasCall(p, "execCreate")

\* C19: a stop or terminate without all that listed more than one container
\* returns the ambiguity error, having issued no stop and no remove call and
\* left every container as it was.
C19_AmbiguousRefused ==
  \A p \in Procs :
    (Cardinality(seen[p]) > 1 /\ ~stopArgs[p].all)
      => /\ pc[p] = "done" /\ err[p] = "multiple"
         /\ ~HasCall(p, "stop") /\ ~HasCall(p, "remove")
         /\ \A c \in seen[p] : Exists(c)

C19_Witness ==
  \E p \in Procs :
    /\ Cardinality(seen[p]) > 1 /\ ~stopArgs[p].all /\ stopArgs[p].terminate
    /\ err[p] = "multiple"

\* C20: a stop or terminate with all that has returned after listing issued
\* exactly one call, a remove for terminate and a stop otherwise, on every
\* listed container, whatever the earlier calls returned; the error it returns
\* is non-nil exactly when some call failed, and joins the failures of all the
\* calls that failed, in order.
FailedCalls(p) ==
  SelectSeq(calls[p], LAMBDA x : Len(x) = 3 /\ x[3] = "failed")

StopLoopOver(p) == stopArgs[p].all /\ pc[p] = "done" /\ err[p] \notin {"client", "list"}

C20_AllAttemptedErrorsJoined ==
  \A p \in Procs :
    StopLoopOver(p)
      => LET op == IF stopArgs[p].terminate THEN "remove" ELSE "stop" IN
         /\ Issued(p, op) = seen[p]
         /\ Cardinality(CallsOf(p, op)) = Cardinality(seen[p])
         /\ Len(calls[p]) = 1 + Cardinality(seen[p])
         /\ err[p] # "nil" <=> FailedCalls(p) # <<>>
         /\ Len(errs[p]) = Len(FailedCalls(p))
         /\ \A i \in 1..Len(errs[p]) :
              errs[p][i] = <<FailedCalls(p)[i][1], FailedCalls(p)[i][2]>>

C20_Witness ==
  \E p \in Procs :
    /\ StopLoopOver(p) /\ Cardinality(seen[p]) = 2
    /\ calls[p][2][3] = "failed" /\ calls[p][3][3] = "ok"
    /\ err[p] = "joined"

\* C21 (as claimed): a process whose configuration parsing or dispatched
\* operation returned an error has printed a diagnostic and ends with a
\* non-zero exit status.
C21_FailureExitsNonZero ==
  \A p \in Procs :
    (mainSt[p].status # -1 /\ mainSt[p].printed # <<>>) => mainSt[p].status # 0

\* C22 (as claimed): no failed resize, initial or signal-triggered and whatever
\* its cause, makes the session return an error.
C22_ResizeNeverAborts ==
  \A p \in Procs :
    (\E i \in 1..Len(resizes[p]) : resizes[p][i][2] # "nil") => err[p] # "resize"

\* the session has made its initial resize and that call failed with e
InitialResizeWas(p, e) == resizes[p] # <<>> /\ resizes[p][1] = <<"initial", e>>

\* C22 (amended): shell() returns the resize error exactly when the initial
\* resize failed with something other than "cannot resize a stopped
\* container" or "no such exec"; a resize triggered by a later window-size
\* signal, failed or not, changes neither the position nor the result of the
\* session.
C22_OnlyUnexpectedInitialResizeAborts ==
  /\ [](\A p \in Procs :
          err[p] = "resize" <=>
            /\ pc[p] = "done"
            /\ \E e \in {"winsize", "other"} : InitialResizeWas(p, e)
            /\ Len(resizes[p]) = 1)
  /\ [][\A p \in Procs :
          Len(Winches(p)') > Len(Winches(p)) => (pc'[p] = pc[p] /\ err'[p] = err[p])]_vars

C22_Witness ==
  \E p \in Procs :
    /\ InitialResizeWas(p, "no such exec")
    /\ \E i \in 1..Len(resizes[p]) : resizes[p][i] = <<"winch", "other">>
    /\ pc[p] = "done" /\ err[p] = "nil"
    /\ HasCall(p, "execStart")

\* C23 (as claimed): under every interleaving of the getLock and dropLock
\* steps of concurrent processes, at most one process is between a successful
\* getLock and its matching dropLock.
C23_LockMutualExclusion == Cardinality({p \in Procs : Locked(p)}) <= 1

\* C24 (as claimed): a one-shot container that is already gone when
\* stopContainer issues its stop call makes stopContainer return success.
C24_AlreadyGoneIsBenign ==
  \A p \in Procs :
    (pc[p] = "done" /\ HasCall(p, "stop") /\ ~HasCall(p, "wait")
       /\ ~Exists(cid[p]))
      => err[p] = "nil"

\* the process has returned from shell() or from the function it called alone
Returned(p) == pc[p] = "done"

\* C25: once the out-of-date warning is printed for a reused persistent
\* container, the invocation goes on to getWorkingDir and the exec session in
\* that same container: the step that prints the warning returns no error, and
\* the process issues no create, stop, wait or remove call and creates its
\* exec session nowhere but in the reused container.
C25_DriftWarnsOnly ==
  /\ [](\A p \in Procs :
          warned[p] =>
            /\ prof[p].persistent /\ cid[p] \in seen[p]
            /\ err[p] # "outdated"
            /\ ~HasCall(p, "create") /\ ~HasCall(p, "stop")
            /\ ~HasCall(p, "wait") /\ ~HasCall(p, "remove")
            /\ Issued(p, "execCreate") \subseteq {cid[p]})
  /\ [][\A p \in Procs :
          (~warned[p] /\ warned'[p]) => (pc'[p] = "wd" /\ err'[p] = "nil")]_vars

C25_Witness ==
  \E p \in Procs :
    /\ warned[p] /\ Returned(p) /\ err[p] = "nil"
    /\ Issued(p, "execCreate") = {cid[p]} /\ HasCall(p, "execStart")

\* C26: checkContainerImageVersion returns no error exactly when both inspect
\* calls succeed; it then reports drift exactly when the two image IDs differ,
\* and on an error it reports no drift.
C26_DriftIffIDsDiffer ==
  \A p \in Procs :
    Returned(p) =>
      LET i == inspected[p] IN
        /\ err[p] = "nil" <=> (i.ctrOk /\ i.imgOk)
        /\ needsUpdate[p] <=> (i.ctrOk /\ i.imgOk /\ i.containerImageID # i.imageID)

C26_Witness ==
  \E p \in Procs, q \in Procs :
    /\ Returned(p) /\ err[p] = "nil" /\ needsUpdate[p]
    /\ inspected[p].containerImageID # inspected[p].imageID
    /\ Returned(q) /\ err[q] = "imageInspect" /\ ~needsUpdate[q]
    /\ inspected[q].containerImageID # inspected[q].imageID

\* C27: the ContainerStart of getPersistentContainer leaves the one matching
\* container running, whatever its state was, and shell() goes on with that
\* container; the engine creates an exec session only while the container runs.
C27_ReuseRestartsStopped ==
  /\ [][\A p \in Procs :
          (pc[p] = "persistStart" /\ pc'[p] # "persistStart" /\ err'[p] = "nil")
            => /\ seen[p] = {cid[p]} /\ cid'[p] = cid[p]
               /\ ctr'[cid[p]].st = "running"
               /\ pc'[p] = "checkImage"]_vars
  /\ [][\A p \in Procs :
          (pc[p] = "execCreate" /\ pc'[p] = "execAttach")
            => ctr[cid[p]].st = "running"]_vars

C27_Witness ==
  \E p \in Procs :
    /\ restarted[p] /\ ~HasCall(p, "create")
    /\ Returned(p) /\ err[p] = "nil" /\ HasCall(p, "execStart")

\* container c carries the labels and the auto-remove setting that the claim
\* prescribes for profile pr
Labelled(c, pr) ==
  /\ ctr[c].type = (IF pr.persistent THEN "persistent" ELSE "one-shot")
  /\ ctr[c].profile = <<pr.name, "/", pr.arch>>
  /\ ctr[c].hasData
  /\ ctr[c].data = << <<"arch", pr.arch>>,
                      <<"persistent", IF pr.persistent THEN "true" ELSE "false">>,
                      <<"user", pr.user>> >>
  /\ ctr[c].auto = ~pr.persistent

\* C28: every container the engine holds carries the three labels of some
\* profile and is auto-removed exactly when that profile is one-shot; a
\* container comes into being with the labels of the profile of the process
\* that creates it, and no later step changes its labels or its auto-remove
\* setting.
C28_LabelInvariant ==
  /\ [](\A c \in Ctrs : Exists(c) => \E pr \in Profiles : Labelled(c, pr))
  /\ [][\A c \in Ctrs :
          (~Exists(c) /\ Exists(c)')
            => \E p \in Procs : pc[p] \in {"create", "create2"} /\ Labelled(c, prof[p])']_vars
  /\ [][\A c \in Ctrs :
          (Exists(c) /\ Exists(c)')
            => /\ ctr'[c].type = ctr[c].type /\ ctr'[c].profile = ctr[c].profile
               /\ ctr'[c].hasData = ctr[c].hasData /\ ctr'[c].data = ctr[c].data
               /\ ctr'[c].auto = ctr[c].auto]_vars

C28_Witness ==
  \E c \in Ctrs, d \in Ctrs :
    /\ ctr[c].st = "running" /\ ctr[c].type = "persistent" /\ ~ctr[c].auto
    /\ ctr[d].st = "running" /\ ctr[d].type = "one-shot" /\ ctr[d].auto

\* the one container the lookup of p returned has no profile-data label
Unlabelled(p) ==
  /\ prof[p].persistent
  /\ Cardinality(seen[p]) = 1
  /\ \E c \in seen[p] : ~ctr[c].hasData

\* C29: a persistent invocation whose lookup returns exactly one container,
\* without a profile-data label, fails with the missing-profile-data error
\* having issued nothing but the list call: it adopts no container and
\* creates no exec session.
C29_MissingDataFailsClosed ==
  \A p \in Procs :
    Unlabelled(p) => /\ pc[p] = "done" /\ err[p] = "nodata"
                     /\ calls[p] = << <<"list", 0>> >>
                     /\ cid[p] = 0

C29_Witness == \E p \in Procs : Unlabelled(p) /\ err[p] = "nodata"

\* C30: list() writes one row per container that carries the profile label;
\* the row of a running container labelled one-shot shows "oneshot", the row
\* of an exited container shows "stopped" whatever its type label, and every
\* other row shows the engine's state.
C30_ListDisplayState ==
  \A p \in Procs :
    (Returned(p) /\ err[p] = "nil" /\ HasCall(p, "list")) =>
      /\ {rows[p][i][3] : i \in 1..Len(rows[p])} = ListMatching
      /\ Len(rows[p]) = Cardinality(ListMatching)
      /\ \A i \in 1..Len(rows[p]) :
           LET c == rows[p][i][3]
               shown == rows[p][i][1]
           IN CASE ctr[c].st = "running" /\ ctr[c].type = "one-shot" -> shown = "oneshot"
                [] ctr[c].st = "exited" -> shown = "stopped"
                [] OTHER -> shown = ctr[c].st

C30_Witness ==
  \E p \in Procs :
    /\ Returned(p) /\ err[p] = "nil"
    /\ \E i \in 1..Len(rows[p]) :
         rows[p][i][1] = "oneshot" /\ ctr[rows[p][i][3]].type = "one-shot"
    /\ \E i \in 1..Len(rows[p]) :
         rows[p][i][1] = "stopped" /\ ctr[rows[p][i][3]].type = "one-shot"


\* the profiles whose path setting holds the directory d, name by name
Holding(d) ==
  {n \in ProfNames : cfg.profiles[n].path # <<>> /\ Within(cfg.profiles[n].path, d)}

\* those of them whose path is the deepest
Nearest(d) ==
  {n \in Holding(d) :
     \A m \in Holding(d) :
       Len(Components(cfg.profiles[m].path)) <= Len(Components(cfg.profiles[n].path))}

NearestDefaults(d) == {n \in Nearest(d) : cfg.profiles[n].def}

\* parseConfigs has returned to main
Parsed(p) == pc[p] \in {"dispatch", "exited", "done"}

\* C31: when several profiles share the nearest path holding the current
\* directory, the selection succeeds only with exactly one default among them
\* and names that profile; with none or several defaults the process prints
\* the error and ends having dispatched no command and issued no engine call.
C31_AmbiguousMatchIsFatal ==
  \A p \in Procs :
    (Parsed(p) /\ Cardinality(Nearest(cwd[p])) > 1) =>
      IF Cardinality(NearestDefaults(cwd[p])) = 1
      THEN pc[p] # "exited" /\ defProfileName[p] \in NearestDefaults(cwd[p])
      ELSE /\ pc[p] = "exited"
           /\ mainSt[p].cmd = "" /\ mainSt[p].printed # <<>>
           /\ calls[p] = <<>>

C31_Witness ==
  \E p \in Procs :
    /\ pc[p] = "exited"
    /\ cwd[p] = <<"/", "p", "/", "s", "/", "t">>
    /\ Cardinality(Nearest(cwd[p])) = 2
    /\ Cardinality(NearestDefaults(cwd[p])) = 2

\* the startup check of p has collected its images
StartupChecked(p) == pc[p] = "upLock" /\ args[p].from = "shell"

StepNames(p) == [i \in 1..Len(steps[p]) |-> steps[p][i][1]]

\* step a was taken with success before the i-th step of p
Before(p, a, i) == \E j \in 1..(i - 1) : steps[p][j] = <<a, "ok">>

\* C33: a session whose exec-start succeeded, and so reaches the blocking
\* wait, has taken exactly the steps exec-create, exec-attach, initial resize,
\* resize-handler registration, raw mode, the two copy loops, exec-start, in
\* that order; the terminal is raw only after a successful exec-attach, and
\* exec-start is only issued after both copy loops were launched.
C33_BridgeProtocolOrder ==
  \A p \in Procs :
    /\ (steps[p] # <<>> /\ steps[p][Len(steps[p])] = <<"execStart", "ok">>)
         => StepNames(p) =
              <<"execCreate", "execAttach", "resize", "monitor", "raw", "outLoop", "inLoop",
                "execStart">>
    /\ InBridge(p) => (steps[p] # <<>> /\ steps[p][Len(steps[p])] = <<"execStart", "ok">>)
    /\ termMode[p] = "raw" => \E i \in 1..Len(steps[p]) : steps[p][i] = <<"execAttach", "ok">>
    /\ \A i \in 1..Len(steps[p]) :
         /\ steps[p][i] = <<"raw", "ok">> => Before(p, "execAttach", i)
         /\ steps[p][i][1] = "execStart" => Before(p, "outLoop", i) /\ Before(p, "inLoop", i)
    /\ HasCall(p, "execStart") =>
         \E i \in 1..Len(steps[p]) : steps[p][i][1] = "execStart"

C33_Witness ==
  \E p \in Procs :
    /\ pc[p] = "select2"
    /\ termMode[p] = "raw"
    /\ steps[p][3] = <<"resize", "no such exec">>
    /\ steps[p][8] = <<"execStart", "ok">>

\* C34 (as claimed): once the attach stream has reached end-of-stream while
\* the readiness scan runs, the scan loop ends and startContainer returns.
C34_ScanEndsAtEndOfStream ==
  \A p \in Sequential :
    (pc[p] = "scan" /\ eof[p]) ~> (pc[p] \notin {"scan", "scanned"})

\* C35 (as claimed): the engine creates an exec session for an invocation only
\* in a container whose entrypoint, in its current run, has echoed CANON_READY;
\* so also in a persistent container that getPersistentContainer restarted.
C35_ExecOnlyWhenReady ==
  [][\A p \in Procs :
       (pc[p] = "execCreate" /\ pc'[p] = "execAttach")
         => ctr[cid[p]].phase = "ready"]_vars

\* C36 (as claimed): when checkUpdate or update has returned, the process
\* holds the lock on no lock file, and no getLock of a process fails on a lock
\* that this same process holds.
C36_LockDroppedOnEveryReturn ==
  \A p \in Procs :
    /\ Returned(p) => \A i \in LockFiles : lockFile.holder[i] # p
    /\ blockedBy[p] # p

\* C37 (as claimed): while another process is between its successful getLock
\* and its dropLock, the flock of getLock fails at once and getLock returns the
\* "another canon process is holding" error to its caller.
C37_HeldLockRefusesAtOnce ==
  [][\A p, q \in Procs :
       (p # q /\ Locked(q) /\ pc[p] = "flock" /\ pc'[p] # "flock")
         => (pc'[p] = "done" /\ err'[p] = "holding")]_vars

\* C38: a call of update writes the cache file at most once, after every
\* requested pull succeeded and with the time of each of them; a call in which
\* a pull failed has written nothing and returns the error, whatever was
\* pulled before in the same call.
C38_CacheAllOrNothing ==
  /\ [](\A p \in Procs :
          /\ Len(written[p]) <= 1
          /\ written[p] # <<>> =>
               /\ images[p] = {}
               /\ \A k \in 1..Len(pulled[p]) :
                    pulled[p][k][2] /\ written[p][1][pulled[p][k][1]] # NoRecord
          /\ (\E k \in 1..Len(pulled[p]) : ~pulled[p][k][2]) =>
               (written[p] = <<>> /\ pc[p] \in {"done", "idle"} /\ err[p] = "pull"))
  /\ [][\A p \in Procs :
          (pc[p] = "upPull" /\ pc'[p] = "done" /\ err'[p] = "pull") => cache' = cache]_vars

C38_Witness ==
  \E p \in Procs :
    /\ Returned(p) /\ err[p] = "pull"
    /\ Len(pulled[p]) = 2 /\ pulled[p][1][2] /\ ~pulled[p][2][2]
    /\ written[p] = <<>> /\ cache = NoCheckData

\* C39 (as claimed): when the profile getDefaultProfile selected is one whose
\* path holds the current directory, getWorkingDir called with that profile
\* from the same directory returns no error.
C39_SelectionAgreesWithWorkingDir ==
  \A p \in Procs :
    (Returned(p) /\ mainSt[p].cmd = "shell" /\ defProfileName[p] \in Nearest(cwd[p]))
      => err[p] # "wd"
====
